---- MODULE Spec2Model ----
(***************************************************************************)
(* ksync: the server's wire protocol (src/src/proto.rs), the per-connection *)
(* method table and request loop (src/src/server/mod.rs), the method       *)
(* handlers (src/src/server/methods/*.rs) and the versioned object store   *)
(* they act on (src/src/files/*.rs).                                       *)
(*                                                                         *)
(* Bytes are integers 0..255, strings are their UTF-8 byte sequences, and  *)
(* a stream is a sequence of bytes.                                        *)
(***************************************************************************)
EXTENDS Integers, Sequences, FiniteSets, TLC

\* ---------------------------------------------------------------- bounds
\* frames (or junk) the clients may send, all connections together
MaxSend == 3
\* largest value of the wall clock
MaxTime == 2

\* connections the listener accepts
Conns == {1, 2}
\* the callers that run Files::insert at the same time
Callers == {1, 2, 3}

\* `let v = e;` followed by body: e is evaluated once, where it stands
Let(v, body(_)) == body(v)

\* ------------------------------------------------------- byte sequences
Pow256(i) == IF i = 0 THEN 1 ELSE IF i = 1 THEN 256 ELSE IF i = 2 THEN 65536 ELSE 0

\* a length no stream of the model reaches: stands for every value >= 2^24
HugeLen == 16777216

\* to_le_bytes of an unsigned integer of w bytes, for n < 2^24
LEBytes(n, w) == [i \in 1..w |-> IF i <= 3 THEN (n \div Pow256(i - 1)) % 256 ELSE 0]
\* from_le_bytes; every value >= 2^24 is read as HugeLen
FromLE(b) == IF \E i \in 4..Len(b) : b[i] # 0 THEN HugeLen
             ELSE b[1] + 256 * b[2] + 65536 * b[3]

IsPrefix(p, s) == Len(p) <= Len(s) /\ SubSeq(s, 1, Len(p)) = p
Drop(s, n) == SubSeq(s, n + 1, Len(s))
Take(s, n) == SubSeq(s, 1, n)

\* str::from_utf8: TRUE iff b is well-formed UTF-8
IsCont(x) == x >= 128 /\ x <= 191
RECURSIVE Utf8Valid(_)
Utf8Valid(b) ==
    IF b = <<>> THEN TRUE
    ELSE LET x == b[1] IN
         IF x < 128 THEN Utf8Valid(Drop(b, 1))
         ELSE IF x >= 194 /\ x <= 223
              THEN Len(b) >= 2 /\ IsCont(b[2]) /\ Utf8Valid(Drop(b, 2))
         ELSE IF x >= 224 /\ x <= 239
              THEN /\ Len(b) >= 3
                   /\ IsCont(b[2]) /\ IsCont(b[3])
                   /\ (x = 224 => b[2] >= 160)
                   /\ (x = 237 => b[2] <= 159)
                   /\ Utf8Valid(Drop(b, 3))
         ELSE IF x >= 240 /\ x <= 244
              THEN /\ Len(b) >= 4
                   /\ IsCont(b[2]) /\ IsCont(b[3]) /\ IsCont(b[4])
                   /\ (x = 240 => b[2] >= 144)
                   /\ (x = 244 => b[2] <= 143)
                   /\ Utf8Valid(Drop(b, 4))
         ELSE FALSE

\* ------------------------------------------------------------ proto.rs
MAGIC == <<107, 115, 121, 110, 99, 0, 0, 0>>

\* write_data: `length, bytes...`
write_data(data) == LEBytes(Len(data), 8) \o data

\* a Packet::write that puts the data before the method name
PacketWrite_DataFirst(p) == MAGIC \o write_data(p.data) \o write_data(p.method)

\* Packet::write: the bytes one packet puts on the stream
PacketWrite(p) == MAGIC \o write_data(p.method) \o write_data(p.data)

\* read_exact(n) on the bytes buf that are followed by end of stream iff eof:
\* "ok" with the bytes, "eof" (UnexpectedEof), or "wait" for more bytes
read_exact(buf, eof, n) ==
    IF Len(buf) >= n THEN [st |-> "ok", bytes |-> Take(buf, n), rest |-> Drop(buf, n)]
    ELSE IF eof THEN [st |-> "eof", bytes |-> <<>>, rest |-> <<>>]
    ELSE [st |-> "wait", bytes |-> <<>>, rest |-> buf]

\* read_data: a u64 length, then that many bytes
read_data(buf, eof) ==
    Let(read_exact(buf, eof, 8), LAMBDA l :
    IF l.st # "ok" THEN l
    ELSE read_exact(l.rest, eof, FromLE(l.bytes)))

\* a read_packet that takes eight bytes that are not the magic for the end
\* of the stream
read_packet_MagicAsEof(buf, eof) ==
    LET proto == read_exact(buf, eof, 8) IN
    IF proto.st = "wait" THEN [kind |-> "wait", rest |-> buf]
    ELSE [kind |-> "none", rest |-> <<>>]

\* read_packet: kind "packet" (Ok(Some)), "none" (Ok(None)), "err" (Err) or
\* "wait" (the read is still blocked); rest is what stays unread
read_packet(buf, eof) ==
    Let(read_exact(buf, eof, 8), LAMBDA proto :
    IF proto.st = "wait" THEN [kind |-> "wait", rest |-> buf]
    ELSE IF proto.st = "eof" THEN [kind |-> "none", rest |-> <<>>]
    ELSE IF proto.bytes # MAGIC
         THEN [kind |-> "err", err |-> "InvalidProtocol", rest |-> proto.rest]
    ELSE Let(read_data(proto.rest, eof), LAMBDA m :
         IF m.st = "wait" THEN [kind |-> "wait", rest |-> buf]
         ELSE IF m.st = "eof" THEN [kind |-> "err", err |-> "UnexpectedEof", rest |-> <<>>]
         ELSE IF ~Utf8Valid(m.bytes)
              THEN [kind |-> "err", err |-> "InvalidUtf8", rest |-> m.rest]
         ELSE Let(read_data(m.rest, eof), LAMBDA d :
              IF d.st = "wait" THEN [kind |-> "wait", rest |-> buf]
              ELSE IF d.st = "eof"
                   THEN [kind |-> "err", err |-> "UnexpectedEof", rest |-> <<>>]
              ELSE [kind |-> "packet", method |-> m.bytes, data |-> d.bytes,
                    rest |-> d.rest])))

\* ----------------------------------------------------- files/crypto.rs
\* Option<T> is a sequence of length 0 (None) or 1 (Some)
None == <<>>
Some(x) == <<x>>

\* Key { kind, identifier, signature }
Key(tag, bytes, identifier, signature) ==
    [kind |-> [tag |-> tag, bytes |-> bytes], identifier |-> identifier,
     signature |-> signature]

\* bincode::serialize(&KeyKind): variant tag u32, then the Vec<u8>
SerKind(kind) == LEBytes(IF kind.tag = "Public" THEN 0 ELSE 1, 4) \o write_data(kind.bytes)
\* bincode::serialize(&Key)
SerKey(k) ==
    SerKind(k.kind) \o write_data(k.identifier)
        \o (IF k.signature = None THEN <<0>> ELSE <<1>> \o write_data(k.signature[1]))

\* bincode::deserialize::<Key> of a byte slice; trailing bytes are left in rest
DeKey(b) ==
    LET bad == [ok |-> FALSE, key |-> Key("Public", <<>>, <<>>, None), rest |-> <<>>] IN
    Let(read_exact(b, TRUE, 4), LAMBDA tg :
    IF tg.st # "ok" \/ FromLE(tg.bytes) \notin {0, 1} THEN bad
    ELSE Let(read_data(tg.rest, TRUE), LAMBDA kb :
    IF kb.st # "ok" THEN bad
    ELSE Let(read_data(kb.rest, TRUE), LAMBDA id :
    IF id.st # "ok" \/ ~Utf8Valid(id.bytes) THEN bad
    ELSE Let(read_exact(id.rest, TRUE, 1), LAMBDA op :
    IF op.st # "ok" \/ op.bytes[1] \notin {0, 1} THEN bad
    ELSE LET tag == IF FromLE(tg.bytes) = 0 THEN "Public" ELSE "Pair" IN
    IF op.bytes[1] = 0
    THEN [ok |-> TRUE, key |-> Key(tag, kb.bytes, id.bytes, None), rest |-> op.rest]
    ELSE Let(read_data(op.rest, TRUE), LAMBDA sg :
         IF sg.st # "ok" THEN bad
         ELSE [ok |-> TRUE, key |-> Key(tag, kb.bytes, id.bytes, Some(sg.bytes)),
               rest |-> sg.rest])))))

\* Ed25519KeyPair::from_pkcs8 accepts exactly these documents
ValidPkcs8 == {<<1>>, <<2>>, <<3>>}
\* KeyPair::public_key of an accepted document
PublicOf(pkcs8) == <<pkcs8[1] + 100>>
\* Ed25519KeyPair::sign: determined by the key and the message
Ed25519Sign(pkcs8, msg) == <<83>> \o PublicOf(pkcs8) \o msg
\* UnparsedPublicKey::verify(..).is_ok()
Ed25519Verify(pub, msg, sig) == sig = <<83>> \o pub \o msg

\* Key::sign: self signed with `with`, or InvalidCertificate
KeySign(self, with) ==
    IF with.kind.tag = "Pair" /\ with.kind.bytes \in ValidPkcs8
    THEN [st |-> "ok",
          key |-> [self EXCEPT !.signature =
                       Some(Ed25519Sign(with.kind.bytes, SerKind(self.kind)))]]
    ELSE [st |-> "err", err |-> "InvalidCertificate", key |-> self]

\* Key::pub_key panics (unwrap) on a Pair that from_pkcs8 rejects
PubKeyPanics(k) == k.kind.tag = "Pair" /\ k.kind.bytes \notin ValidPkcs8
\* Key::pub_key().raw()
PubKeyRaw(k) == IF k.kind.tag = "Public" THEN k.kind.bytes ELSE PublicOf(k.kind.bytes)

\* Key::verify: "panic", or "ok" with the boolean
KeyVerify(self, with) ==
    IF PubKeyPanics(with) THEN [st |-> "panic", val |-> FALSE]
    ELSE IF self.signature = None THEN [st |-> "ok", val |-> FALSE]
    ELSE [st |-> "ok",
          val |-> Ed25519Verify(PubKeyRaw(with), SerKind(self.kind), self.signature[1])]

\* -------------------------------------------------- files/mod.rs: Path
SLASH == 47

\* str::split('/'): the components between slashes, empty ones included
RECURSIVE Split(_)
Split(b) ==
    IF \A i \in 1..Len(b) : b[i] # SLASH THEN <<b>>
    ELSE LET i == CHOOSE i \in 1..Len(b) :
                      b[i] = SLASH /\ \A j \in 1..(i - 1) : b[j] # SLASH
         IN <<Take(b, i - 1)>> \o Split(Drop(b, i))

\* Path::new(str).is_ok()
PathValid(str) ==
    LET double_slashes == Cardinality({i \in 2..Len(Split(str)) : Split(str)[i] = <<>>})
    IN ~(str = <<>> \/ str[1] # SLASH \/ (double_slashes # 0 /\ str # <<SLASH>>))

\* Path::parts
Parts(path) == Split(Drop(path, 1))

\* index (from 1) of the last slash of a path
LastSlash(path) == CHOOSE i \in 1..Len(path) :
                       path[i] = SLASH /\ \A j \in (i + 1)..Len(path) : path[j] # SLASH

\* Path::parent_child: the child is None for the root
ParentChild(path) ==
    IF path = <<SLASH>> THEN [parent |-> path, child |-> None]
    ELSE LET last_slash == LastSlash(path) IN
         [parent |-> IF last_slash = 1 THEN <<SLASH>> ELSE Take(path, last_slash - 1),
          child  |-> Some(Drop(path, last_slash))]

\* Path::ancestors: "/" and then the prefix before each later slash
Ancestors(path) ==
    LET slashes == {i \in 2..Len(path) : path[i] = SLASH}
        nth(k)  == CHOOSE i \in slashes : Cardinality({j \in slashes : j < i}) = k - 1
    IN <<(<<SLASH>>)>> \o [k \in 1..Cardinality(slashes) |-> Take(path, nth(k) - 1)]

\* ---------------------------------------------------- files/node.rs: Node
\* Node { data: Option<NodeData>, timestamp }; tag "None" is a tombstone,
\* "Dir" carries the map of children, "File" the Object
EmptyMap == [x \in {} |-> x]
Node(tag, dir, file, timestamp) ==
    [tag |-> tag, dir |-> dir, file |-> file, timestamp |-> timestamp]
new_dir(t) == Node("Dir", EmptyMap, None, t)
new_file(object, t) == Node("File", EmptyMap, Some(object), t)

is_dir(node) == node.tag = "Dir"
is_file(node) == node.tag = "File"

Ok(node) == [st |-> "ok", node |-> node, err |-> ""]
Err(e, node) == [st |-> "err", node |-> node, err |-> e]

\* Node::traverse / traverse_mut along parts: st "ok" with found TRUE and
\* the node, "ok" with found FALSE (Ok(None)), or "err" NotADirectory
RECURSIVE TraverseParts(_, _)
TraverseParts(node, parts) ==
    IF parts = <<>> THEN [st |-> "ok", found |-> TRUE, node |-> node]
    ELSE IF ~is_dir(node) THEN [st |-> "err", found |-> FALSE, node |-> node]
    ELSE IF Head(parts) \notin DOMAIN node.dir
         THEN [st |-> "ok", found |-> FALSE, node |-> node]
    ELSE TraverseParts(node.dir[Head(parts)], Tail(parts))

traverse(node, path) ==
    IF path # <<SLASH>> THEN TraverseParts(node, Parts(path))
    ELSE [st |-> "ok", found |-> TRUE, node |-> node]

\* the tree with the node reached by parts replaced by sub (the write through
\* the &mut Node that traverse_mut returned)
RECURSIVE ReplaceAt(_, _, _)
ReplaceAt(node, parts, sub) ==
    IF parts = <<>> THEN sub
    ELSE [node EXCEPT !.dir = [n \in DOMAIN node.dir |->
              IF n = Head(parts) THEN ReplaceAt(node.dir[n], Tail(parts), sub)
              ELSE node.dir[n]]]
PathParts(path) == IF path = <<SLASH>> THEN <<>> ELSE Parts(path)

insert_child_Alone(node, name, child) ==
    [node EXCEPT !.dir = [n \in {name} |-> child]]

\* Node::insert_child on a Dir
insert_child(node, name, child) ==
    [node EXCEPT !.dir = [n \in DOMAIN node.dir \cup {name} |->
                              IF n = name THEN child ELSE node.dir[n]]]

\* a make_dir that puts a new empty Dir over a child that is there
make_dir_Replaces(self, path, t) ==
    Let(ParentChild(path), LAMBDA pc :
    IF pc.child = None THEN Ok(self)
    ELSE Let(traverse(self, pc.parent), LAMBDA tr :
         IF tr.st = "err" THEN Err("NotADirectory", self)
         ELSE IF ~tr.found THEN Err("NotFound", self)
         ELSE IF ~is_dir(tr.node) THEN Err("NotADirectory", self)
         ELSE Ok(ReplaceAt(self, PathParts(pc.parent),
                           insert_child(tr.node, pc.child[1], new_dir(t))))))

\* Node::make_dir at time t
make_dir(self, path, t) ==
    Let(ParentChild(path), LAMBDA pc :
    IF pc.child = None THEN Ok(self)
    ELSE Let(traverse(self, pc.parent), LAMBDA tr :
         IF tr.st = "err" THEN Err("NotADirectory", self)
         ELSE IF ~tr.found THEN Err("NotFound", self)
         ELSE IF ~is_dir(tr.node) THEN Err("NotADirectory", self)
         ELSE IF pc.child[1] \in DOMAIN tr.node.dir THEN Ok(self)
         ELSE Ok(ReplaceAt(self, PathParts(pc.parent),
                           insert_child(tr.node, pc.child[1], new_dir(t))))))

\* Node::make_dir_recursive: make_dir on every ancestor after "/", then on path
RECURSIVE MakeDirs(_, _, _)
MakeDirs(self, paths, t) ==
    IF paths = <<>> THEN Ok(self)
    ELSE Let(make_dir(self, Head(paths), t), LAMBDA r :
         IF r.st = "err" THEN r ELSE MakeDirs(r.node, Tail(paths), t))
make_dir_recursive(self, path, t) == MakeDirs(self, Tail(Ancestors(path)) \o <<path>>, t)

\* Node::insert at time t
node_insert(self, path, object, t) ==
    Let(ParentChild(path), LAMBDA pc :
    IF pc.child = None THEN Err("IsADirectory", self)
    ELSE Let(traverse(self, pc.parent), LAMBDA tr :
         IF tr.st = "err" THEN Err("NotADirectory", self)
         ELSE IF ~tr.found THEN Err("NotFound", self)
         ELSE IF ~is_dir(tr.node) THEN Err("NotADirectory", self)
         ELSE IF pc.child[1] \in DOMAIN tr.node.dir /\ is_dir(tr.node.dir[pc.child[1]])
              THEN Err("IsADirectory", self)
         ELSE Ok(ReplaceAt(self, PathParts(pc.parent),
                           insert_child(tr.node, pc.child[1], new_file(object, t))))))

\* a delete that takes a path it cannot reach for deleted already
node_delete_Lenient(self, path) ==
    Let(traverse(self, path), LAMBDA tr :
    IF tr.st = "err" \/ ~tr.found THEN Ok(self)
    ELSE Ok(ReplaceAt(self, PathParts(path),
                      [tr.node EXCEPT !.tag = "None", !.dir = EmptyMap, !.file = None])))

\* Node::delete: the node's data becomes None, its timestamp stays
node_delete(self, path) ==
    Let(traverse(self, path), LAMBDA tr :
    IF tr.st = "err" THEN Err("NotADirectory", self)
    ELSE IF ~tr.found THEN Err("NotFound", self)
    ELSE Ok(ReplaceAt(self, PathParts(path),
                      [tr.node EXCEPT !.tag = "None", !.dir = EmptyMap, !.file = None])))

\* --------------------------------------------------- files/mod.rs: Files
\* What an object holds: raw bytes (a file's content or a serialized Key), or
\* the serialization of a Node, kept as the Node it deserializes to
RawData(bytes) == [raw |-> bytes, node |-> None]
NodeData(node) == [raw |-> <<>>, node |-> Some(node)]

\* SHA-256 of the data: Object(hash), one Object per distinct content
Sha256(data) == [sha256 |-> data]

\* Files { objects, roots }: objects maps an Object to its data, roots maps a
\* root name to its RootHistory, a list of (timestamp, Object)
MkFiles(objects, roots) == [objects |-> objects, roots |-> roots]

create_object_NoStore(F, data) == [F |-> F, object |-> Sha256(data)]

create_object_Fresh(F, data) ==
    LET key == Sha256([data EXCEPT !.raw = @ \o <<Cardinality(DOMAIN F.objects)>>]) IN
    [F |-> [F EXCEPT !.objects = key :> data @@ F.objects], object |-> key]

\* Files::create_object: stores the data unless its hash is already a key
create_object(F, data) ==
    LET hash == Sha256(data) IN
    [F |-> IF hash \in DOMAIN F.objects THEN F
           ELSE [F EXCEPT !.objects = hash :> data @@ F.objects],
     object |-> hash]

root_merge_Replace(F, root, object, t) ==
    [F EXCEPT !.roots = root :> <<[timestamp |-> t, object |-> object]>> @@ F.roots]

root_merge_Prepend(F, root, object, t) ==
    LET list == IF root \in DOMAIN F.roots THEN F.roots[root] ELSE <<>> IN
    [F EXCEPT !.roots = root :> (<<[timestamp |-> t, object |-> object]>> \o list)
                            @@ F.roots]

root_merge_Overwrite(F, root, object, t) ==
    LET list == IF root \in DOMAIN F.roots THEN F.roots[root] ELSE <<>>
        kept == IF Len(list) > 1 THEN SubSeq(list, 1, Len(list) - 1) ELSE list
    IN [F EXCEPT !.roots = root :> Append(kept, [timestamp |-> t, object |-> object])
                               @@ F.roots]

\* root_merge through roots.merge: appends (timestamp, object) to the list
root_merge(F, root, object, t) ==
    LET list == IF root \in DOMAIN F.roots THEN F.roots[root] ELSE <<>> IN
    [F EXCEPT !.roots = root :> Append(list, [timestamp |-> t, object |-> object])
                            @@ F.roots]

\* Files::set_root
set_root(F, root, node, t) ==
    Let(create_object(F, NodeData(node)), LAMBDA c : root_merge(c.F, root, c.object, t))

Revision(tag, n) == [tag |-> tag, n |-> n]

RevisionIndex_FromEarliest(history, revision) ==
    IF revision.n < Len(history) THEN revision.n + 1 ELSE 0

\* the index (from 1) in history that a Revision selects, 0 where the
\* selection is None and the unwrap panics
RevisionIndex(history, revision) ==
    LET len == Len(history) IN
    IF revision.tag = "FromLatest"
    THEN (IF revision.n < len THEN len - revision.n ELSE 0)
    ELSE IF revision.tag = "FromEarliest"
    THEN (IF revision.n < len THEN revision.n + 1 ELSE 0)
    ELSE \* AsOfTime: take_while(t < n).last()
         IF \E i \in 1..len : \A j \in 1..i : history[j].timestamp < revision.n
         THEN CHOOSE i \in 1..len :
                  /\ \A j \in 1..i : history[j].timestamp < revision.n
                  /\ (i = len \/ ~(history[i + 1].timestamp < revision.n))
         ELSE 0

\* Files::get_root: "ok" with the Node, "err", or "panic"
get_root(F, root, revision) ==
    LET none == new_dir(0) IN
    IF root \notin DOMAIN F.roots THEN [st |-> "err", err |-> "NotFound", node |-> none]
    ELSE Let(RevisionIndex(F.roots[root], revision), LAMBDA i :
         IF i = 0 THEN [st |-> "panic", err |-> "", node |-> none]
         ELSE Let(F.roots[root][i].object, LAMBDA object :
              IF object \notin DOMAIN F.objects
              THEN [st |-> "panic", err |-> "", node |-> none]
              ELSE IF F.objects[object].node = None
              THEN [st |-> "err", err |-> "Bincode", node |-> none]
              ELSE [st |-> "ok", err |-> "", node |-> F.objects[object].node[1]]))

Latest == Revision("FromLatest", 0)

\* Files::with_root_mut: op on the latest Node, then set_root of the result
with_root_mut(F, root, op(_), t) ==
    Let(get_root(F, root, Latest), LAMBDA g :
    IF g.st # "ok" THEN [st |-> g.st, err |-> g.err, F |-> F]
    ELSE Let(op(g.node), LAMBDA r :
         IF r.st # "ok" THEN [st |-> "err", err |-> r.err, F |-> F]
         ELSE [st |-> "ok", err |-> "", F |-> set_root(F, root, r.node, t)]))

\* Files::set_key
set_key(F, path, key, t) ==
    Let(create_object(F, RawData(SerKey(key))), LAMBDA c :
    with_root_mut(c.F, "keyring", LAMBDA node : node_insert(node, path, c.object, t), t))

\* Files::get_key: "ok" with the Key, "err", or "panic"
get_key(F, path) ==
    LET nokey == Key("Public", <<>>, <<>>, None) IN
    Let(get_root(F, "keyring", Latest), LAMBDA g :
    IF g.st # "ok" THEN [st |-> g.st, err |-> g.err, key |-> nokey]
    ELSE Let(traverse(g.node, path), LAMBDA tr :
         IF tr.st = "err" THEN [st |-> "err", err |-> "NotADirectory", key |-> nokey]
         ELSE IF ~(tr.found /\ is_file(tr.node))
              THEN [st |-> "err", err |-> "NotFound", key |-> nokey]
         ELSE Let(tr.node.file[1], LAMBDA object :
              IF object \notin DOMAIN F.objects
              THEN [st |-> "panic", err |-> "", key |-> nokey]
              ELSE Let(DeKey(F.objects[object].raw), LAMBDA d :
                   IF F.objects[object].node # None \/ ~d.ok
                   THEN [st |-> "err", err |-> "Bincode", key |-> nokey]
                   ELSE [st |-> "ok", err |-> "", key |-> d.key]))))

P_self == <<47, 115, 101, 108, 102>>
P_trusted == <<47, 116, 114, 117, 115, 116, 101, 100>>
P_self_admin == <<47, 115, 101, 108, 102, 47, 97, 100, 109, 105, 110>>
P_self_server == <<47, 115, 101, 108, 102, 47, 115, 101, 114, 118, 101, 114>>
P_trusted_client == <<47, 116, 114, 117, 115, 116, 101, 100, 47, 99, 108, 105, 101, 110, 116>>

\* Files::set_admin_key / get_admin_key
set_admin_key(F, key, t) == set_key(F, P_self_admin, key, t)
get_admin_key(F) == get_key(F, P_self_admin)

\* Files::set_server_key: stored only if signed by the admin key
set_server_key(F, key, t) ==
    Let(get_admin_key(F), LAMBDA a :
    IF a.st # "ok" THEN [st |-> a.st, err |-> a.err, F |-> F]
    ELSE Let(KeyVerify(key, a.key), LAMBDA v :
         IF v.st = "panic" THEN [st |-> "panic", err |-> "", F |-> F]
         ELSE IF v.val THEN set_key(F, P_self_server, key, t)
         ELSE [st |-> "err", err |-> "InvalidData", F |-> F]))

\* Files::get_server_key: returned only if signed by the admin key
get_server_key(F) ==
    Let(get_key(F, P_self_server), LAMBDA k :
    IF k.st # "ok" THEN k
    ELSE Let(get_admin_key(F), LAMBDA a :
         IF a.st # "ok" THEN a
         ELSE Let(KeyVerify(k.key, a.key), LAMBDA v :
              IF v.st = "panic" THEN [st |-> "panic", err |-> "", key |-> k.key]
              ELSE IF v.val THEN k
              ELSE [st |-> "err", err |-> "InvalidData", key |-> k.key])))

\* Files::trust_client: the key signed with the server key, at /trusted/client
trust_client(F, key, t) ==
    Let(get_server_key(F), LAMBDA s :
    IF s.st # "ok" THEN [st |-> s.st, err |-> s.err, F |-> F]
    ELSE Let(KeySign(key, s.key), LAMBDA g :
         IF g.st # "ok" THEN [st |-> "err", err |-> g.err, F |-> F]
         ELSE set_key(F, P_trusted_client, g.key, t)))

verify_client_SignatureOnly(F, key) ==
    Let(get_server_key(F), LAMBDA s :
    IF s.st # "ok" THEN [st |-> s.st, err |-> s.err, val |-> FALSE]
    ELSE Let(get_key(F, P_trusted_client), LAMBDA c :
         IF c.st # "ok" THEN [st |-> c.st, err |-> c.err, val |-> FALSE]
         ELSE [st |-> "ok", err |-> "", val |-> KeyVerify(c.key, s.key).val]))

\* Files::verify_client: "ok" with the boolean, "err", or "panic"
verify_client(F, key) ==
    Let(get_server_key(F), LAMBDA s :
    IF s.st # "ok" THEN [st |-> s.st, err |-> s.err, val |-> FALSE]
    ELSE Let(get_key(F, P_trusted_client), LAMBDA c :
         IF c.st # "ok" THEN [st |-> c.st, err |-> c.err, val |-> FALSE]
         ELSE Let(KeyVerify(c.key, s.key), LAMBDA v :
              IF v.st = "panic" \/ PubKeyPanics(c.key) \/ PubKeyPanics(key)
              THEN [st |-> "panic", err |-> "", val |-> FALSE]
              ELSE [st |-> "ok", err |-> "",
                    val |-> v.val /\ PubKeyRaw(c.key) = PubKeyRaw(key)])))

\* Files::clear: both trees emptied, then a new empty root "fs"
clear(F, t) == set_root(MkFiles(EmptyMap, EmptyMap), "fs", new_dir(t), t)

\* Files::open on an empty database: roots "fs" and "keyring", the keyring
\* with the directories /self and /trusted
FilesOpen ==
    LET f1 == set_root(MkFiles(EmptyMap, EmptyMap), "fs", new_dir(0), 0)
        f2 == set_root(f1, "keyring", new_dir(0), 0)
    IN with_root_mut(f2, "keyring",
           LAMBDA node : make_dir(make_dir(node, P_self, 0).node, P_trusted, 0), 0).F

\* ------------------------------------------ files/mod.rs: the filesystem API
\* Files::load: the stored data, the unwrap panics for an Object never stored
load(F, object) ==
    IF object \in DOMAIN F.objects
    THEN [st |-> "ok", data |-> F.objects[object]]
    ELSE [st |-> "panic", data |-> RawData(<<>>)]

\* an insert that writes the root back whether or not the closure failed
files_insert_AlwaysSets(F, path, data, t) ==
    Let(create_object(F, RawData(data)), LAMBDA c :
    Let(get_root(c.F, "fs", Latest), LAMBDA g :
    Let(Let(make_dir_recursive(g.node, ParentChild(path).parent, t), LAMBDA m :
            IF m.st = "err" THEN m ELSE node_insert(m.node, path, c.object, t)), LAMBDA r :
    [st |-> r.st, err |-> r.err, F |-> set_root(c.F, "fs", r.node, t)])))

\* Files::insert: the object is created first, then the latest "fs" Node gets
\* the parent directories and the File node, and becomes the new snapshot
files_insert(F, path, data, t) ==
    Let(create_object(F, RawData(data)), LAMBDA c :
    with_root_mut(c.F, "fs",
        LAMBDA node : Let(make_dir_recursive(node, ParentChild(path).parent, t), LAMBDA m :
                      IF m.st = "err" THEN m ELSE node_insert(m.node, path, c.object, t)),
        t))

\* Files::get: Ok(Some(data)) for a File node at path in the revision,
\* Ok(None) for anything else found or not found; "err" or "panic" otherwise
files_get(F, path, revision) ==
    Let(get_root(F, "fs", revision), LAMBDA g :
    IF g.st # "ok" THEN [st |-> g.st, err |-> g.err, val |-> None]
    ELSE Let(traverse(g.node, path), LAMBDA tr :
         IF tr.st = "err" THEN [st |-> "err", err |-> "NotADirectory", val |-> None]
         ELSE IF ~(tr.found /\ is_file(tr.node)) THEN [st |-> "ok", err |-> "", val |-> None]
         ELSE Let(load(F, tr.node.file[1]), LAMBDA l :
              IF l.st = "panic" THEN [st |-> "panic", err |-> "", val |-> None]
              ELSE [st |-> "ok", err |-> "", val |-> Some(l.data.raw)])))

\* Files::delete
files_delete(F, path, t) ==
    with_root_mut(F, "fs", LAMBDA node : node_delete(node, path), t)

\* Files::rollback: the Node of the revision becomes the new snapshot as it is
files_rollback(F, revision, t) ==
    Let(get_root(F, "fs", revision), LAMBDA g :
    IF g.st # "ok" THEN [st |-> g.st, err |-> g.err, F |-> F]
    ELSE [st |-> "ok", err |-> "", F |-> set_root(F, "fs", g.node, t)])

\* Files::get_node: Ok(Some(node)) or Ok(None), val the Option
files_get_node(F, path, revision) ==
    Let(get_root(F, "fs", revision), LAMBDA g :
    IF g.st # "ok" THEN [st |-> g.st, err |-> g.err, val |-> None]
    ELSE Let(traverse(g.node, path), LAMBDA tr :
         IF tr.st = "err" THEN [st |-> "err", err |-> "NotADirectory", val |-> None]
         ELSE IF ~tr.found THEN [st |-> "ok", err |-> "", val |-> None]
         ELSE [st |-> "ok", err |-> "", val |-> Some(tr.node)]))

\* Files::get_history: the RootHistory of "fs"
files_get_history(F) ==
    IF "fs" \in DOMAIN F.roots
    THEN [st |-> "ok", err |-> "", val |-> F.roots["fs"]]
    ELSE [st |-> "err", err |-> "NotFound", val |-> <<>>]

\* -------------------------------------- files/node.rs: NodeIter and FileList
\* NodeIter: every (path, node) the iterator yields below a node reached with
\* the path prefix; a Dir is yielded under its path, the root Dir under "/"
RECURSIVE NodeIter(_, _)
NodeIter(path, node) ==
    IF ~is_dir(node) THEN <<[path |-> path, node |-> node]>>
    ELSE Let([path |-> IF path = <<>> THEN <<SLASH>> ELSE path, node |-> node], LAMBDA this :
         LET RECURSIVE Children(_)
             Children(names) ==
                 IF names = {} THEN <<>>
                 ELSE LET n == CHOOSE x \in names : TRUE
                      IN NodeIter(path \o <<SLASH>> \o n, node.dir[n])
                         \o Children(names \ {n})
         IN <<this>> \o Children(DOMAIN node.dir))

\* Node::iter
iter(self) == NodeIter(<<>>, self)

\* FileList: every (path, object, timestamp) yielded below a Dir reached with
\* the path prefix, which ends with a slash
RECURSIVE FileList(_, _)
FileList(path, node) ==
    LET RECURSIVE Entries(_)
        Entries(names) ==
            IF names = {} THEN <<>>
            ELSE LET n == CHOOSE x \in names : TRUE
                 IN (IF is_dir(node.dir[n]) THEN FileList(path \o n \o <<SLASH>>, node.dir[n])
                     ELSE IF is_file(node.dir[n])
                          THEN <<[path |-> path \o n, object |-> node.dir[n].file[1],
                                  timestamp |-> node.dir[n].timestamp]>>
                          ELSE <<>>)
                    \o Entries(names \ {n})
    IN Entries(DOMAIN node.dir)

\* Node::file_list: "err" NotADirectory unless self is a Dir
file_list(self) ==
    IF is_dir(self) THEN [st |-> "ok", err |-> "", val |-> FileList(<<SLASH>>, self)]
    ELSE [st |-> "err", err |-> "NotADirectory", val |-> <<>>]

\* ------------------------------------------- files.rs: Node::merge (rollback)
\* the paths, as lists of parts, that file_list yields for merge: every File
\* and every deleted entry below the Dir node
RECURSIVE FileListParts(_)
FileListParts(node) ==
    UNION {IF is_dir(node.dir[n])
           THEN {<<n>> \o p : p \in FileListParts(node.dir[n])}
           ELSE {<<n>>} : n \in DOMAIN node.dir}

\* the path string of a non-empty list of parts
RECURSIVE JoinParts(_)
JoinParts(parts) ==
    IF parts = <<>> THEN <<>> ELSE <<SLASH>> \o Head(parts) \o JoinParts(Tail(parts))

\* one iteration of merge's loop, for the entry at path
MergeEntry(self, path, timestamp) ==
    LET pc == ParentChild(path) IN
    Let(make_dir_recursive(self, pc.parent, timestamp), LAMBDA md :
    IF md.st = "err" THEN md
    ELSE Let(traverse(md.node, pc.parent), LAMBDA tr :
         IF tr.st = "err" \/ ~tr.found \/ ~is_dir(tr.node)
         THEN Err("NotADirectory", self)
         ELSE LET name == pc.child[1]
                  child == IF name \in DOMAIN tr.node.dir
                           THEN [tr.node.dir[name] EXCEPT !.timestamp = timestamp]
                           ELSE Node("None", EmptyMap, None, timestamp)
              IN Ok(ReplaceAt(md.node, PathParts(pc.parent),
                              insert_child(tr.node, name, child)))))

RECURSIVE MergeAll(_, _, _)
MergeAll(self, paths, timestamp) ==
    IF paths = {} THEN Ok(self)
    ELSE LET p == CHOOSE p \in paths : TRUE IN
         Let(MergeEntry(self, JoinParts(p), timestamp), LAMBDA r :
         IF r.st = "err" THEN r ELSE MergeAll(r.node, paths \ {p}, timestamp))

\* Node::merge
merge(self, rhs, timestamp) ==
    IF ~is_dir(rhs) THEN Err("NotADirectory", self)
    ELSE MergeAll(self, FileListParts(rhs), timestamp)

\* ------------------------------------------ bincode of the method inputs
\* &str as Path (serde try_from): length, UTF-8 bytes, Path::new
DePath(b) ==
    Let(read_data(b, TRUE), LAMBDA d :
    IF d.st = "ok" /\ Utf8Valid(d.bytes) /\ PathValid(d.bytes)
    THEN [ok |-> TRUE, path |-> d.bytes, rest |-> d.rest]
    ELSE [ok |-> FALSE, path |-> <<SLASH>>, rest |-> <<>>])
SerPath(path) == write_data(path)

\* Revision: variant tag u32, then usize (u64) or u128
SerRevision(r) ==
    LEBytes(IF r.tag = "FromLatest" THEN 0 ELSE IF r.tag = "FromEarliest" THEN 1 ELSE 2, 4)
        \o LEBytes(r.n, IF r.tag = "AsOfTime" THEN 16 ELSE 8)
DeRevision(b) ==
    LET bad == [ok |-> FALSE, revision |-> Latest, rest |-> <<>>] IN
    Let(read_exact(b, TRUE, 4), LAMBDA tg :
    IF tg.st # "ok" \/ FromLE(tg.bytes) \notin {0, 1, 2} THEN bad
    ELSE LET v == FromLE(tg.bytes) IN
         Let(read_exact(tg.rest, TRUE, IF v = 2 THEN 16 ELSE 8), LAMBDA n :
         IF n.st # "ok" THEN bad
         ELSE [ok |-> TRUE,
               revision |-> Revision(IF v = 0 THEN "FromLatest"
                                     ELSE IF v = 1 THEN "FromEarliest" ELSE "AsOfTime",
                                     FromLE(n.bytes)),
               rest |-> n.rest]))

\* ------------------------------------------------ server/methods/*.rs
\* Method::NAME of every method, as the bytes a Packet carries
NameBytes ==
    [CONFIGURE   |-> <<67, 79, 78, 70, 73, 71, 85, 82, 69>>,
     IDENTIFY    |-> <<73, 68, 69, 78, 84, 73, 70, 89>>,
     GET         |-> <<71, 69, 84>>,
     INSERT      |-> <<73, 78, 83, 69, 82, 84>>,
     DELETE      |-> <<68, 69, 76, 69, 84, 69>>,
     CLEAR       |-> <<67, 76, 69, 65, 82>>,
     ROLLBACK    |-> <<82, 79, 76, 76, 66, 65, 67, 75>>,
     GET_NODE    |-> <<71, 69, 84, 95, 78, 79, 68, 69>>,
     GET_HISTORY |-> <<71, 69, 84, 95, 72, 73, 83, 84, 79, 82, 89>>]
MethodNames == DOMAIN NameBytes

\* methods::fs::register: the methods it adds to a Context
FsMethods == {"GET", "INSERT", "DELETE", "CLEAR", "ROLLBACK", "GET_NODE", "GET_HISTORY"}

\* the root the filesystem methods work on (fs.rs still spells it "root",
\* the name files.rs gave to the root that files/mod.rs seeds as "fs")
FsRoot == "fs"

\* what a handler returns: st "ok" (Ok), "err" (Err(err)) or "panic", with
\* the Files and the method table it leaves behind
Ret(st, err, F, M) == [st |-> st, err |-> err, F |-> F, M |-> M]

\* an Identify::call that leaves IDENTIFY registered
IdentifyCall_KeepsIdentify(F, M, key) ==
    Let(verify_client(F, key), LAMBDA v :
    IF v.st # "ok" THEN Ret(v.st, v.err, F, M)
    ELSE IF v.val THEN Ret("ok", "", F, M \cup FsMethods)
    ELSE Ret("err", "InvalidData", F, M))

\* Identify::call
IdentifyCall(F, M, key) ==
    LET M1 == M \ {"IDENTIFY"} IN
    Let(verify_client(F, key), LAMBDA v :
    IF v.st # "ok" THEN Ret(v.st, v.err, F, M1)
    ELSE IF v.val THEN Ret("ok", "", F, M1 \cup FsMethods)
    ELSE Ret("err", "InvalidData", F, M1))

\* a Configure::call that leaves CONFIGURE registered
ConfigureCall_KeepsConfigure(F, M, admin, server, client, t) ==
    Let(set_admin_key(F, admin, t), LAMBDA a :
    IF a.st # "ok" THEN Ret(a.st, a.err, a.F, M)
    ELSE Let(set_server_key(a.F, server, t), LAMBDA s :
    IF s.st # "ok" THEN Ret(s.st, s.err, s.F, M)
    ELSE Let(trust_client(s.F, client, t), LAMBDA c :
    IF c.st # "ok" THEN Ret(c.st, c.err, c.F, M)
    ELSE Ret("ok", "", c.F, M \cup {"IDENTIFY"}))))

\* Configure::call
ConfigureCall(F, M, admin, server, client, t) ==
    Let(set_admin_key(F, admin, t), LAMBDA a :
    IF a.st # "ok" THEN Ret(a.st, a.err, a.F, M)
    ELSE Let(set_server_key(a.F, server, t), LAMBDA s :
    IF s.st # "ok" THEN Ret(s.st, s.err, s.F, M)
    ELSE Let(trust_client(s.F, client, t), LAMBDA c :
    IF c.st # "ok" THEN Ret(c.st, c.err, c.F, M)
    ELSE Ret("ok", "", c.F, (M \cup {"IDENTIFY"}) \ {"CONFIGURE"}))))

\* Get::call
GetCall(F, M, path) ==
    Let(get_root(F, FsRoot, Latest), LAMBDA g :
    IF g.st # "ok" THEN Ret(g.st, g.err, F, M)
    ELSE Let(traverse(g.node, path), LAMBDA tr :
         IF tr.st = "err" THEN Ret("err", "NotADirectory", F, M)
         ELSE IF ~(tr.found /\ is_file(tr.node)) THEN Ret("err", "InvalidInput", F, M)
         ELSE IF tr.node.file[1] \notin DOMAIN F.objects THEN Ret("panic", "", F, M)
         ELSE Ret("ok", "", F, M)))

\* Insert::call
InsertCall(F, M, path, data, t) ==
    LET parent == ParentChild(path).parent IN
    Let(create_object(F, RawData(data)), LAMBDA c :
    Let(with_root_mut(c.F, FsRoot,
            LAMBDA node :
                Let(make_dir_recursive(node, parent, t), LAMBDA md :
                    IF md.st = "err" THEN md
                    ELSE node_insert(md.node, path, c.object, t)),
            t), LAMBDA w :
    Ret(w.st, w.err, w.F, M)))

\* Delete::call
DeleteCall(F, M, path, t) ==
    Let(with_root_mut(F, FsRoot, LAMBDA node : node_delete(node, path), t), LAMBDA w :
    Ret(w.st, w.err, w.F, M))

\* Clear::call
ClearCall(F, M, t) == Ret("ok", "", clear(F, t), M)

\* Rollback::call
RollbackCall(F, M, revision, t) ==
    Let(get_root(F, FsRoot, revision), LAMBDA old_root :
    IF old_root.st # "ok" THEN Ret(old_root.st, old_root.err, F, M)
    ELSE Let(get_root(F, FsRoot, Latest), LAMBDA new_root :
    IF new_root.st # "ok" THEN Ret(new_root.st, new_root.err, F, M)
    ELSE Let(merge(old_root.node, new_root.node, t), LAMBDA m :
    IF m.st # "ok" THEN Ret("err", m.err, F, M)
    ELSE Ret("ok", "", set_root(F, FsRoot, m.node, t), M))))

\* GetNode::call
GetNodeCall(F, M, path, revision) ==
    Let(get_root(F, FsRoot, revision), LAMBDA g :
    IF g.st # "ok" THEN Ret(g.st, g.err, F, M)
    ELSE Let(traverse(g.node, path), LAMBDA tr :
         IF tr.st = "err" THEN Ret("err", "NotADirectory", F, M)
         ELSE IF ~tr.found THEN Ret("err", "NotFound", F, M)
         ELSE Ret("ok", "", F, M)))

\* GetHistory::call
GetHistoryCall(F, M) ==
    IF FsRoot \in DOMAIN F.roots THEN Ret("ok", "", F, M)
    ELSE Ret("err", "NotFound", F, M)

\* RawMethod::call_bytes of the method called name: the input deserialized
\* from bytes, the call, the output serialized
call_bytes(name, F, M, bytes, t) ==
    LET bad == Ret("err", "Bincode", F, M) IN
    CASE name = "IDENTIFY" ->
           Let(DeKey(bytes), LAMBDA k :
           IF k.ok THEN IdentifyCall(F, M, k.key) ELSE bad)
      [] name = "CONFIGURE" ->
           Let(DeKey(bytes), LAMBDA a :
           IF ~a.ok THEN bad
           ELSE Let(DeKey(a.rest), LAMBDA s :
           IF ~s.ok THEN bad
           ELSE Let(DeKey(s.rest), LAMBDA c :
           IF ~c.ok THEN bad
           ELSE ConfigureCall(F, M, a.key, s.key, c.key, t))))
      [] name = "GET" ->
           Let(DePath(bytes), LAMBDA p :
           IF p.ok THEN GetCall(F, M, p.path) ELSE bad)
      [] name = "INSERT" ->
           Let(DePath(bytes), LAMBDA p :
           IF ~p.ok THEN bad
           ELSE Let(read_data(p.rest, TRUE), LAMBDA d :
                IF d.st # "ok" THEN bad ELSE InsertCall(F, M, p.path, d.bytes, t)))
      [] name = "DELETE" ->
           Let(DePath(bytes), LAMBDA p :
           IF p.ok THEN DeleteCall(F, M, p.path, t) ELSE bad)
      [] name = "CLEAR" -> ClearCall(F, M, t)
      [] name = "ROLLBACK" ->
           Let(DeRevision(bytes), LAMBDA r :
           IF r.ok THEN RollbackCall(F, M, r.revision, t) ELSE bad)
      [] name = "GET_NODE" ->
           Let(DePath(bytes), LAMBDA p :
           IF ~p.ok THEN bad
           ELSE Let(DeRevision(p.rest), LAMBDA r :
                IF r.ok THEN GetNodeCall(F, M, p.path, r.revision) ELSE bad))
      [] name = "GET_HISTORY" -> GetHistoryCall(F, M)

\* a dispatch that looks the method up among all methods, registered or not
Dispatch_AnyMethod(F, M, packet, t) ==
    IF \E name \in MethodNames : NameBytes[name] = packet.method
    THEN LET name == CHOOSE name \in MethodNames : NameBytes[name] = packet.method
         IN [ret |-> call_bytes(name, F, M, packet.data, t), handler |-> name]
    ELSE [ret |-> Ret("err", "InvalidMethod", F, M), handler |-> ""]

\* ------------------------------------------------------- server/mod.rs
\* Context::dispatch: the handler registered under the packet's method, or
\* InvalidMethod; handler names the method that ran ("" when none did)
Dispatch(F, M, packet, t) ==
    IF \E name \in M : NameBytes[name] = packet.method
    THEN LET name == CHOOSE name \in M : NameBytes[name] = packet.method
         IN [ret |-> call_bytes(name, F, M, packet.data, t), handler |-> name]
    ELSE [ret |-> Ret("err", "InvalidMethod", F, M), handler |-> ""]

\* Files::is_configured: an admin key is persisted
is_configured(F) == get_admin_key(F).st = "ok"

\* an accept that registers both CONFIGURE and IDENTIFY
AcceptMethods_Both(F) == {"CONFIGURE", "IDENTIFY"}

\* Server::accept: the method table of a new Context
AcceptMethods(F) == IF is_configured(F) THEN {"IDENTIFY"} ELSE {"CONFIGURE"}

\* Server::run, after the response is written: an Err response ends the
\* connection task (`return Err(e)`), an Ok response loops to the next read
AfterWrite(status) == IF status = "ERR" THEN "closed" ELSE "read"

\* Server::run, the response frame for a handler's result
ResponseStatus(st) == IF st = "ok" THEN "OK" ELSE "ERR"

\* ------------------------------------------------------------- clients
\* keys a client may hold: an admin pair, the server pair without and with the
\* admin's signature, a client pair, a stranger's public key, a Pair whose
\* bytes are not PKCS#8
K_admin == Key("Pair", <<1>>, <<>>, None)
K_server_unsigned == Key("Pair", <<2>>, <<>>, None)
K_server == KeySign(K_server_unsigned, K_admin).key
K_client == Key("Pair", <<3>>, <<>>, None)
K_other == Key("Public", <<104>>, <<>>, None)
K_bad == Key("Pair", <<9>>, <<>>, None)

P_a == <<47, 97>>
P_d == <<47, 100>>
P_d_a == <<47, 100, 47, 97>>

\* proto::write_packet / invoke on the client: one request frame
Frame(name, data) == PacketWrite([method |-> name, data |-> data])

\* the well-formed request frames clients send
RequestFrames ==
    {Frame(NameBytes.CONFIGURE, SerKey(t[1]) \o SerKey(t[2]) \o SerKey(t[3])) :
         t \in {<<K_admin, K_server, K_client>>,
                <<K_admin, K_server_unsigned, K_client>>,
                <<K_bad, K_server, K_client>>}}
    \cup {Frame(NameBytes.IDENTIFY, SerKey(k)) : k \in {K_client, K_other, K_bad}}
    \cup {Frame(NameBytes.GET, SerPath(P_a)),
          Frame(NameBytes.INSERT, SerPath(P_a) \o write_data(<<1>>)),
          Frame(NameBytes.INSERT, <<255>>),
          Frame(NameBytes.DELETE, SerPath(P_a)),
          Frame(NameBytes.CLEAR, <<>>),
          Frame(NameBytes.ROLLBACK, SerRevision(Revision("FromLatest", 1))),
          Frame(NameBytes.GET_NODE, SerPath(<<SLASH>>) \o SerRevision(Latest)),
          Frame(NameBytes.GET_HISTORY, <<>>),
          Frame(<<78, 79, 80, 69>>, <<>>)}

\* other bytes a peer may put on the stream: eight bytes that are not the
\* magic, and a frame whose method name is not UTF-8
RawSends == {<<107, 115, 121, 110, 99, 0, 0, 1>>, Frame(<<255>>, <<>>)}

\* the last bytes a peer may send before it ends the stream: nothing, or a
\* frame cut short inside MAGIC, METHOD_LEN, METHOD_NAME, DATA_LEN or DATA
CutFrame == Frame(NameBytes.GET, SerPath(P_a))
CutSends == {Take(CutFrame, n) : n \in {0, 3, 12, 17, 23, 30}}

\* ------------------------------------------------ sync.rs: the sync client
\* SyncClient.dir, the canonical path of the synced folder: "/s"
D == <<SLASH, 115>>

P_d_b == <<47, 100, 47, 98>>

\* SyncClient::local_path: dir.join of the path without its leading slash;
\* joining the empty string leaves the folder itself
local_path(path) ==
    LET rel == Drop(path, 1) IN IF rel = <<>> THEN D ELSE D \o <<SLASH>> \o rel

\* SyncClient::remote_path: strip_prefix(dir) and a leading slash
remote_path(path) == <<SLASH>> \o Drop(path, Len(D) + 1)

\* the local filesystem: a map from the paths that exist to what is there
LocalDir == [kind |-> "dir", data |-> <<>>, mtime |-> 0]
LocalFile(data, mtime) == [kind |-> "file", data |-> data, mtime |-> mtime]

\* std::path::Path::exists, is_dir, is_file
local_exists(L, p) == p \in DOMAIN L
local_is_dir(L, p) == p \in DOMAIN L /\ L[p].kind = "dir"
local_is_file(L, p) == p \in DOMAIN L /\ L[p].kind = "file"

\* q is p or lies below p
Below(p, q) == q = p \/ IsPrefix(p \o <<SLASH>>, q)

\* tokio::fs::create_dir_all: fails where p or one of its ancestors is a
\* file, else every missing directory down to p exists afterwards
create_dir_all(L, p) ==
    LET chain == {Take(p, i) : i \in {j \in Len(D)..Len(p) :
                                         j = Len(p) \/ p[j + 1] = SLASH}} IN
    IF \E q \in chain : local_is_file(L, q) THEN [st |-> "err", L |-> L]
    ELSE [st |-> "ok",
          L |-> [q \in DOMAIN L \cup chain |-> IF q \in DOMAIN L THEN L[q] ELSE LocalDir]]

\* tokio::fs::write at time t: fails where the parent is not a directory or
\* p is one
fs_write(L, p, data, t) ==
    IF local_is_dir(L, ParentChild(p).parent) /\ ~local_is_dir(L, p)
    THEN [st |-> "ok",
          L |-> [q \in DOMAIN L \cup {p} |-> IF q = p THEN LocalFile(data, t) ELSE L[q]]]
    ELSE [st |-> "err", L |-> L]

\* tokio::fs::read: fails unless p is a file
fs_read(L, p) ==
    IF local_is_file(L, p) THEN [st |-> "ok", data |-> L[p].data]
    ELSE [st |-> "err", data |-> <<>>]

\* tokio::fs::remove_dir_all and remove_file
remove_dir_all(L, p) == [q \in {x \in DOMAIN L : ~Below(p, x)} |-> L[q]]
remove_file(L, p) == [q \in DOMAIN L \ {p} |-> L[q]]

\* a request the client sent with Client::invoke, and how it was answered
Req(method, path, ok) == [method |-> method, path |-> path, ok |-> ok]

\* an event of the watcher: its kind and its path in the local filesystem
Notify(kind, path) == [ev |-> "Notify", kind |-> kind, path |-> path]
ResyncEvent == [ev |-> "Resync", kind |-> "", path |-> <<>>]

\* the events the watcher queues for a write of p: Create where p is new,
\* then Modify
WriteEvents(L, p) ==
    (IF local_exists(L, p) THEN <<>> ELSE <<Notify("Create", p)>>) \o <<Notify("Modify", p)>>

\* what a step of the client leaves behind: Ok or Err, the local filesystem,
\* the server's Files, the requests sent and the events its writes caused
SyncRet(st, L, F, reqs, events) ==
    [st |-> st, L |-> L, F |-> F, reqs |-> reqs, events |-> events]

\* SyncClient::fetch_file at time t
fetch_file(L, F, path, t) ==
    IF GetCall(F, FsMethods, path).st # "ok"
    THEN SyncRet("err", L, F, <<Req("GET", path, FALSE)>>, <<>>)
    ELSE Let(files_get(F, path, Latest).val[1], LAMBDA data :
         Let(create_dir_all(L, local_path(ParentChild(path).parent)), LAMBDA mk :
         IF mk.st = "err" THEN SyncRet("err", L, F, <<Req("GET", path, TRUE)>>, <<>>)
         ELSE Let(fs_write(mk.L, local_path(path), data, t), LAMBDA wr :
              IF wr.st = "err"
              THEN SyncRet("err", mk.L, F, <<Req("GET", path, TRUE)>>, <<>>)
              ELSE SyncRet("ok", wr.L, F, <<Req("GET", path, TRUE)>>,
                           WriteEvents(mk.L, local_path(path))))))

\* SyncClient::upload_file at time t
upload_file(L, F, path, t) ==
    Let(fs_read(L, local_path(path)), LAMBDA rd :
    IF rd.st = "err" THEN SyncRet("err", L, F, <<>>, <<>>)
    ELSE Let(InsertCall(F, FsMethods, path, rd.data, t), LAMBDA ins :
         IF ins.st # "ok" THEN SyncRet("err", L, F, <<Req("INSERT", path, FALSE)>>, <<>>)
         ELSE SyncRet("ok", L, ins.F, <<Req("INSERT", path, TRUE)>>, <<>>)))

\* a delete_file that removes files only
delete_file_FilesOnly(L, F, path) ==
    LET p == local_path(path) IN
    IF local_is_file(L, p)
    THEN SyncRet("ok", remove_file(L, p), F, <<>>, <<Notify("Remove", p)>>)
    ELSE SyncRet("ok", L, F, <<>>, <<>>)

\* SyncClient::delete_file
delete_file(L, F, path) ==
    LET p == local_path(path) IN
    IF local_is_dir(L, p)
    THEN SyncRet("ok", remove_dir_all(L, p), F, <<>>, <<Notify("Remove", p)>>)
    ELSE IF local_is_file(L, p)
    THEN SyncRet("ok", remove_file(L, p), F, <<>>, <<Notify("Remove", p)>>)
    ELSE SyncRet("ok", L, F, <<>>, <<>>)

\* a compare that looks at the times only, never at the content
compare_ByTime(L, root, path) ==
    LET p == local_path(path) IN
    Let(traverse(root, path), LAMBDA tr :
    IF tr.st = "err" THEN [st |-> "err", status |-> ""]
    ELSE IF ~tr.found THEN [st |-> "ok", status |-> "Newer"]
    ELSE IF tr.node.tag = "None" \/ is_dir(tr.node)
         THEN [st |-> "ok", status |-> IF ~local_exists(L, p) THEN "Same" ELSE "Deleted"]
    ELSE IF ~local_exists(L, p) THEN [st |-> "ok", status |-> "NotPresent"]
    ELSE Let(fs_read(L, p), LAMBDA rd :
         IF rd.st = "err" THEN [st |-> "err", status |-> ""]
         ELSE IF L[p].mtime > tr.node.timestamp THEN [st |-> "ok", status |-> "Newer"]
         ELSE [st |-> "ok", status |-> "Older"]))

\* a compare that takes the local copy for the newer one on equal timestamps
compare_TiesLocal(L, root, path) ==
    LET p == local_path(path) IN
    Let(traverse(root, path), LAMBDA tr :
    IF tr.st = "err" THEN [st |-> "err", status |-> ""]
    ELSE IF ~tr.found THEN [st |-> "ok", status |-> "Newer"]
    ELSE IF tr.node.tag = "None" \/ is_dir(tr.node)
         THEN [st |-> "ok", status |-> IF ~local_exists(L, p) THEN "Same" ELSE "Deleted"]
    ELSE IF ~local_exists(L, p) THEN [st |-> "ok", status |-> "NotPresent"]
    ELSE Let(fs_read(L, p), LAMBDA rd :
         IF rd.st = "err" THEN [st |-> "err", status |-> ""]
         ELSE IF Sha256(RawData(rd.data)) = tr.node.file[1]
              THEN [st |-> "ok", status |-> "Same"]
         ELSE IF L[p].mtime >= tr.node.timestamp THEN [st |-> "ok", status |-> "Newer"]
         ELSE [st |-> "ok", status |-> "Older"]))

\* SyncClient::compare: the FileStatus of path against the listing root, or
\* "err"
compare(L, root, path) ==
    LET p == local_path(path) IN
    Let(traverse(root, path), LAMBDA tr :
    IF tr.st = "err" THEN [st |-> "err", status |-> ""]
    ELSE IF ~tr.found THEN [st |-> "ok", status |-> "Newer"]
    ELSE IF tr.node.tag = "None" \/ is_dir(tr.node)
         THEN [st |-> "ok", status |-> IF ~local_exists(L, p) THEN "Same" ELSE "Deleted"]
    ELSE IF ~local_exists(L, p) THEN [st |-> "ok", status |-> "NotPresent"]
    ELSE Let(fs_read(L, p), LAMBDA rd :
         IF rd.st = "err" THEN [st |-> "err", status |-> ""]
         ELSE IF Sha256(RawData(rd.data)) = tr.node.file[1]
              THEN [st |-> "ok", status |-> "Same"]
         ELSE IF L[p].mtime > tr.node.timestamp THEN [st |-> "ok", status |-> "Newer"]
         ELSE [st |-> "ok", status |-> "Older"]))

\* a resync_file that leaves a file that is not present locally alone
resync_file_SkipsNotPresent(L, F, root, path, t) ==
    Let(compare(L, root, path), LAMBDA c :
    IF c.st = "err" THEN SyncRet("err", L, F, <<>>, <<>>)
    ELSE IF c.status = "Older" THEN fetch_file(L, F, path, t)
    ELSE IF c.status = "Newer" THEN upload_file(L, F, path, t)
    ELSE IF c.status = "Deleted" THEN delete_file(L, F, path)
    ELSE SyncRet("ok", L, F, <<>>, <<>>))

\* SyncClient::resync_file at time t
resync_file(L, F, root, path, t) ==
    Let(compare(L, root, path), LAMBDA c :
    IF c.st = "err" THEN SyncRet("err", L, F, <<>>, <<>>)
    ELSE IF c.status = "Older" THEN fetch_file(L, F, path, t)
    ELSE IF c.status = "NotPresent" THEN fetch_file(L, F, path, t)
    ELSE IF c.status = "Newer" THEN upload_file(L, F, path, t)
    ELSE IF c.status = "Deleted" THEN delete_file(L, F, path)
    ELSE SyncRet("ok", L, F, <<>>, <<>>))

\* FileList::as_map: remote path -> (object, timestamp)
as_map(list) ==
    [p \in {list[i].path : i \in 1..Len(list)} |->
        LET i == CHOOSE i \in 1..Len(list) : list[i].path = p /\
                     \A j \in (i + 1)..Len(list) : list[j].path # p
        IN [object |-> list[i].object, timestamp |-> list[i].timestamp]]

\* a Notify arm that uploads the file of every event, whatever its kind and
\* whatever the server holds
notify_event_Always(L, F, event, t) ==
    IF event.kind = "Error" THEN SyncRet("err", L, F, <<>>, <<>>)
    ELSE IF ~local_is_file(L, event.path) THEN SyncRet("ok", L, F, <<>>, <<>>)
    ELSE Let(InsertCall(F, FsMethods, remote_path(event.path), fs_read(L, event.path).data, t),
             LAMBDA ins :
         IF ins.st # "ok"
         THEN SyncRet("err", L, F, <<Req("INSERT", remote_path(event.path), FALSE)>>, <<>>)
         ELSE SyncRet("ok", L, ins.F, <<Req("INSERT", remote_path(event.path), TRUE)>>, <<>>))

\* SyncClient::run, the arm for SyncEvent::Notify at time t
notify_event(L, F, event, t) ==
    IF event.kind = "Error" THEN SyncRet("err", L, F, <<>>, <<>>)
    ELSE IF event.kind # "Modify" THEN SyncRet("ok", L, F, <<>>, <<>>)
    ELSE IF GetNodeCall(F, FsMethods, <<SLASH>>, Latest).st # "ok"
         THEN SyncRet("err", L, F, <<Req("GET_NODE", <<SLASH>>, FALSE)>>, <<>>)
    ELSE Let(file_list(files_get_node(F, <<SLASH>>, Latest).val[1]), LAMBDA fl :
         LET listed == <<Req("GET_NODE", <<SLASH>>, TRUE)>> IN
         IF fl.st = "err" THEN SyncRet("err", L, F, listed, <<>>)
         ELSE IF ~(Below(D, event.path) /\ local_is_file(L, event.path))
              THEN SyncRet("ok", L, F, listed, <<>>)
         ELSE Let(remote_path(event.path), LAMBDA path :
              IF path \in DOMAIN as_map(fl.val)
                 /\ as_map(fl.val)[path].object = Sha256(RawData(fs_read(L, event.path).data))
              THEN SyncRet("ok", L, F, listed, <<>>)
              ELSE IF ~PathValid(path) THEN SyncRet("err", L, F, listed, <<>>)
              ELSE Let(InsertCall(F, FsMethods, path, fs_read(L, event.path).data, t),
                       LAMBDA ins :
                   IF ins.st # "ok"
                   THEN SyncRet("err", L, F, listed \o <<Req("INSERT", path, FALSE)>>, <<>>)
                   ELSE SyncRet("ok", L, ins.F,
                                listed \o <<Req("INSERT", path, TRUE)>>, <<>>))))

\* the order in which glob yields paths: sorted, a directory before what is
\* in it
GlobLess(a, b) ==
    \E i \in 1..(Len(b)) :
        /\ Len(a) >= i - 1 /\ Take(a, i - 1) = Take(b, i - 1)
        /\ (Len(a) = i - 1 \/ a[i] < b[i])

\* glob("{dir}/**/*"): every path below the folder
glob(L) == {p \in DOMAIN L : p # D /\ Below(D, p)}

\* the server's trees the client may find: nothing stored; /d/a live; /d/a
\* live and /d/b deleted; the directory /d deleted
Srv_a == InsertCall(FilesOpen, FsMethods, P_d_a, <<1>>, 1).F
Srv_a_b == DeleteCall(InsertCall(Srv_a, FsMethods, P_d_b, <<2>>, 1).F, FsMethods, P_d_b, 1).F
Srv_d == DeleteCall(Srv_a, FsMethods, P_d, 1).F
SyncRemotes == {FilesOpen, Srv_a, Srv_a_b, Srv_d}

\* the folders the client may find: empty, or one file at /s/d/b, /s/d,
\* /s/d/a/c or /s/d/a
LocalEmpty == D :> LocalDir
LocalWith(path, data, mtime) ==
    fs_write(create_dir_all(LocalEmpty, local_path(ParentChild(path).parent)).L,
             local_path(path), data, mtime).L
SyncLocals ==
    {LocalEmpty, LocalWith(P_d_b, <<2>>, 1), LocalWith(P_d, <<1>>, 1),
     LocalWith(P_d_a \o <<SLASH, 99>>, <<1>>, 1), LocalWith(P_d_a, <<1>>, 1)}
    \cup {LocalWith(P_d_a, <<2>>, mtime) : mtime \in 0..MaxTime}

\* what the client did last: the step, the path and event kind it was about,
\* the FileStatus, the folder, the Files and the listing it started from, and
\* from its result r: Ok or Err, the requests sent, the folder and the Files
\* it left
Step(op, path, kind, status, r, L, F, root) ==
    [op |-> op, path |-> path, kind |-> kind, status |-> status, st |-> r.st,
     reqs |-> r.reqs, L |-> L, F |-> F, root |-> root, La |-> r.L, Fa |-> r.F]

\* the pass (init_resync or resync) that begins: the folder and the Files at
\* its start, nobody else has acted since, nothing sent, not yet over; calm
\* where the pass before was a resync that ended Ok and nobody else has acted
\* since that one began
Pass(kind, L, F, calm) ==
    [kind |-> kind, L |-> L, F |-> F, quiet |-> TRUE, reqs |-> <<>>, over |-> FALSE,
     calm |-> calm]

\* ---------------------------------------------------------------- state
VARIABLES
    files,     \* the Files shared by all connections
    now,       \* the wall clock
    cstate,    \* per connection: "idle" (not accepted), "open", "closed"
    methods,   \* per connection: Context.methods, the registered method names
    inbuf,     \* per connection: bytes sent by the peer and not yet read
    eof,       \* per connection: the peer has shut down its sending side
    pc,        \* per connection: "read", "dispatch" or "write" in Server::run
    request,   \* per connection: the Packet read and being served
    response,  \* per connection: the response about to be written
    sent,      \* how many times the peers have sent bytes
    outcome,   \* per connection: how the task ended: "" (running), "clean"
               \*   (Ok(())), "panic", or the error that Server::run logs
    log,       \* per connection: the frames read and written, in order
    \* one stream between a Packet::write-r and a read_packet-er
    wire,      \* the bytes written and not yet read
    wclosed,   \* the writer has ended the stream
    written,   \* the Packets written, in order
    decoded,   \* the Packets read, in order
    rstate,    \* the reader: "" (reading), "none" (Ok(None)), or its error
    \* one caller of the Files API
    last,      \* the last call: its arguments, its result, the Files before it
    calls,     \* how many calls were made
    \* callers that write the root "fs" at the same time, and one reader
    cpc,       \* per caller: "start", "serialize", "merge" or "done"
    cnode,     \* per caller: the Node it passes to set_root
    cobj,      \* per caller: the Object that serialize returned
    seen,      \* the histories the reader got, in order
    \* the sync client, its folder and its event queue
    local,     \* the local filesystem
    squeue,    \* the SyncEvents sent and not yet received
    sphase,    \* where run is: "init", "init_files", "loop", "resync", "ended"
    slisting,  \* the listing the running pass got from GET_NODE
    swork,     \* what the loop of the running pass has still to visit
    slast,     \* the last step of the client
    srun,      \* the running or the last pass
    senv       \* how many times somebody else has acted

srvVars == <<files, now, cstate, methods, inbuf, eof, pc, request, response, sent,
             outcome, log>>
wireVars == <<wire, wclosed, written, decoded, rstate>>
apiVars == <<last, calls>>
concVars == <<cpc, cnode, cobj, seen>>
syncVars == <<local, squeue, sphase, slisting, swork, slast, srun, senv>>
vars == <<srvVars, wireVars, apiVars, concVars, syncVars>>

NoPacket == [method |-> <<>>, data |-> <<>>]
NoResponse == [status |-> "", err |-> "", handler |-> ""]

ReqEvent(packet) ==
    [ev |-> "req", method |-> packet.method, status |-> "", err |-> "", handler |-> ""]
RespEvent(resp) ==
    [ev |-> "resp", method |-> <<>>, status |-> resp.status, err |-> resp.err,
     handler |-> resp.handler]

\* a call of the Files API at time t: what was passed, how it ended ("ok",
\* "err" or "panic"), what it returned, and the Files it found
Call(op, path, data, revision, t, st, err, val, before) ==
    [op |-> op, path |-> path, data |-> data, revision |-> revision, t |-> t,
     st |-> st, err |-> err, val |-> val, before |-> before]
NoCall == Call("", <<>>, <<>>, Latest, 0, "", "", None, FilesOpen)

NumReq(c) == Cardinality({i \in 1..Len(log[c]) : log[c][i].ev = "req"})
NumResp(c) == Cardinality({i \in 1..Len(log[c]) : log[c][i].ev = "resp"})

\* the state after construction, but for the Files, the clock and the folder
InitRest ==
    /\ cstate = [c \in Conns |-> "idle"]
    /\ methods = [c \in Conns |-> {}]
    /\ inbuf = [c \in Conns |-> <<>>]
    /\ eof = [c \in Conns |-> FALSE]
    /\ pc = [c \in Conns |-> "read"]
    /\ request = [c \in Conns |-> NoPacket]
    /\ response = [c \in Conns |-> NoResponse]
    /\ sent = 0
    /\ outcome = [c \in Conns |-> ""]
    /\ log = [c \in Conns |-> <<>>]
    /\ wire = <<>>
    /\ wclosed = FALSE
    /\ written = <<>>
    /\ decoded = <<>>
    /\ rstate = ""
    /\ last = NoCall
    /\ calls = 0
    /\ cpc = [c \in Callers |-> "start"]
    /\ cnode = [c \in Callers |-> new_dir(0)]
    /\ cobj = [c \in Callers |-> Sha256(NodeData(new_dir(0)))]
    /\ seen = <<>>
    /\ squeue = <<ResyncEvent>>
    /\ sphase = "init"
    /\ slisting = new_dir(0)
    /\ swork = {}
    /\ slast = Step("", <<>>, "", "", SyncRet("", LocalEmpty, FilesOpen, <<>>, <<>>),
                    LocalEmpty, FilesOpen, new_dir(0))
    /\ srun = Pass("", LocalEmpty, FilesOpen, FALSE)
    /\ senv = 0

Init ==
    /\ files = FilesOpen
    /\ now = 0
    /\ local = LocalEmpty
    /\ InitRest

\* Server::accept, and the spawn of the connection's task; connections are
\* numbered in the order the listener accepts them
Accept(c) ==
    /\ cstate[c] = "idle"
    /\ \A d \in Conns : d < c => cstate[d] # "idle"
    /\ cstate' = [cstate EXCEPT ![c] = "open"]
    /\ methods' = [methods EXCEPT ![c] = AcceptMethods(files)]
    /\ UNCHANGED <<files, now, inbuf, eof, pc, request, response, sent, outcome, log>>
    /\ UNCHANGED <<wireVars, apiVars, concVars, syncVars>>

\* the peer writes bytes to the stream. The task sees them at its next read
\* whenever they arrive, so they are delivered when it waits in the read
ClientSendBytes(c, bytes) ==
    /\ cstate[c] = "open"
    /\ ~eof[c]
    /\ sent < MaxSend
    /\ pc[c] = "read" /\ inbuf[c] = <<>>
    /\ inbuf' = [inbuf EXCEPT ![c] = @ \o bytes]
    /\ sent' = sent + 1
    /\ UNCHANGED <<files, now, cstate, methods, eof, pc, request, response, outcome, log>>
    /\ UNCHANGED <<wireVars, apiVars, concVars, syncVars>>

ClientSend(c) == \E bytes \in RequestFrames : ClientSendBytes(c, bytes)
ClientSendRaw(c) == \E bytes \in RawSends : ClientSendBytes(c, bytes)

\* the peer shuts down its sending side, possibly in the middle of a frame:
\* the stream ends after inbuf
ClientClose(c) ==
    /\ cstate[c] = "open"
    /\ ~eof[c]
    /\ pc[c] = "read" /\ inbuf[c] = <<>>
    /\ \E bytes \in CutSends : inbuf' = [inbuf EXCEPT ![c] = @ \o bytes]
    /\ eof' = [eof EXCEPT ![c] = TRUE]
    /\ UNCHANGED <<files, now, cstate, methods, pc, request, response, sent,
                   outcome, log>>
    /\ UNCHANGED <<wireVars, apiVars, concVars, syncVars>>

\* the task ends: the Context and its stream are dropped
EndTask(c, how) ==
    /\ cstate' = [cstate EXCEPT ![c] = "closed"]
    /\ outcome' = [outcome EXCEPT ![c] = how]

\* Server::run: proto::read_packet(&mut ctx.stream).await?
ServerRead(c) ==
    /\ cstate[c] = "open"
    /\ pc[c] = "read"
    /\ LET r == read_packet(inbuf[c], eof[c]) IN
       /\ r.kind # "wait"
       /\ inbuf' = [inbuf EXCEPT ![c] = r.rest]
       /\ IF r.kind = "packet"
          THEN /\ request' = [request EXCEPT ![c] = [method |-> r.method, data |-> r.data]]
               /\ log' = [log EXCEPT ![c] = Append(@, ReqEvent(r))]
               /\ pc' = [pc EXCEPT ![c] = "dispatch"]
               /\ UNCHANGED <<cstate, outcome>>
          ELSE /\ EndTask(c, IF r.kind = "none" THEN "clean" ELSE r.err)
               /\ UNCHANGED <<request, log, pc>>
    /\ UNCHANGED <<files, now, methods, eof, response, sent>>
    /\ UNCHANGED <<wireVars, apiVars, concVars, syncVars>>

\* Server::run: ctx.dispatch(&files, request); a panic unwinds the task
ServerDispatch(c) ==
    /\ cstate[c] = "open"
    /\ pc[c] = "dispatch"
    /\ \E t \in {now, now + 1} :
          /\ t <= MaxTime
          /\ LET Handled(d) ==
                /\ now' = IF d.ret.F = files THEN now ELSE t
                /\ files' = d.ret.F
                /\ methods' = [methods EXCEPT ![c] = d.ret.M]
                /\ IF d.ret.st = "panic"
                   THEN /\ EndTask(c, "panic")
                        /\ UNCHANGED <<pc, response>>
                   ELSE /\ response' = [response EXCEPT ![c] =
                               [status |-> ResponseStatus(d.ret.st), err |-> d.ret.err,
                                handler |-> d.handler]]
                        /\ pc' = [pc EXCEPT ![c] = "write"]
                        /\ UNCHANGED <<cstate, outcome>>
             IN Handled(Dispatch(files, methods[c], request[c], t))
    /\ UNCHANGED <<inbuf, eof, request, sent, log>>
    /\ UNCHANGED <<wireVars, apiVars, concVars, syncVars>>

\* Server::run: the response Packet written and flushed, then the loop
\* continues or returns the error
ServerWrite(c) ==
    /\ cstate[c] = "open"
    /\ pc[c] = "write"
    /\ log' = [log EXCEPT ![c] = Append(@, RespEvent(response[c]))]
    /\ IF AfterWrite(response[c].status) = "closed"
       THEN /\ EndTask(c, response[c].err)
            /\ UNCHANGED pc
       ELSE /\ pc' = [pc EXCEPT ![c] = "read"]
            /\ UNCHANGED <<cstate, outcome>>
    /\ UNCHANGED <<files, now, methods, inbuf, eof, request, response, sent>>
    /\ UNCHANGED <<wireVars, apiVars, concVars, syncVars>>

Next ==
    \E c \in Conns :
        \/ Accept(c)
        \/ ClientSend(c)
        \/ ClientSendRaw(c)
        \/ ClientClose(c)
        \/ ServerRead(c)
        \/ ServerDispatch(c)
        \/ ServerWrite(c)

Spec == Init /\ [][Next]_vars

\* ------------------------------------------ one stream, writer and reader
\* frames one writer may put on the stream
MaxFrames == 2

\* method names (UTF-8: empty, "OK", "\u{e9}") and data bytes of the packets
WireNames == {<<>>, <<79, 75>>, <<195, 169>>}
WireDatas == {<<>>, <<255>>, MAGIC}
WirePackets == [method : WireNames, data : WireDatas]

\* Packet::write of one more packet
WirePacketWrite ==
    /\ ~wclosed
    /\ Len(written) < MaxFrames
    /\ \E p \in WirePackets :
          /\ wire' = wire \o PacketWrite(p)
          /\ written' = Append(written, p)
    /\ UNCHANGED <<wclosed, decoded, rstate>>
    /\ UNCHANGED <<srvVars, apiVars, concVars, syncVars>>

\* the writer ends the stream, after the first k of the unread bytes
WireClose ==
    /\ ~wclosed
    /\ wclosed' = TRUE
    /\ \E k \in 0..Len(wire) : wire' = Take(wire, k)
    /\ UNCHANGED <<written, decoded, rstate>>
    /\ UNCHANGED <<srvVars, apiVars, concVars, syncVars>>

\* read_packet by the reader, until it returns None or an error
WireRead ==
    /\ rstate = ""
    /\ LET r == read_packet(wire, wclosed) IN
       /\ r.kind # "wait"
       /\ wire' = r.rest
       /\ IF r.kind = "packet"
          THEN /\ decoded' = Append(decoded, [method |-> r.method, data |-> r.data])
               /\ UNCHANGED rstate
          ELSE /\ rstate' = (IF r.kind = "none" THEN "none" ELSE r.err)
               /\ UNCHANGED decoded
    /\ UNCHANGED <<wclosed, written>>
    /\ UNCHANGED <<srvVars, apiVars, concVars, syncVars>>

NextProto == WirePacketWrite \/ WireClose \/ WireRead

SpecProto == Init /\ [][NextProto]_vars

\* ------------------------------------------------- one caller of the Files API
\* how many API calls the caller makes
MaxCalls == 3

P_root == <<SLASH>>
ApiPaths == {P_root, P_a, P_d, P_d_a}
ApiDatas == {<<1>>, <<2>>}
ApiRevisions ==
    {Revision("FromLatest", n) : n \in 0..(MaxCalls + 1)}
    \cup {Revision("FromEarliest", n) : n \in 0..(MaxCalls + 1)}
    \cup {Revision("AsOfTime", n) : n \in 0..(MaxTime + 1)}

connVars == <<cstate, methods, inbuf, eof, pc, request, response, sent, outcome, log>>

\* the call ends: the clock has moved to t, the Files are F
Returned(call, F) ==
    /\ calls < MaxCalls
    /\ call.t \in {now, now + 1} /\ call.t <= MaxTime
    /\ files' = F
    /\ now' = call.t
    /\ last' = call
    /\ calls' = calls + 1
    /\ UNCHANGED <<connVars, wireVars, concVars, syncVars>>

\* Files::create_object called with the bytes of a file
FilesCreateObject ==
    \E data \in ApiDatas, t \in {now, now + 1} :
        LET Done(c) == Returned(Call("create_object", <<>>, data, Latest, t, "ok", "",
                                     Some(c.object), files), c.F)
        IN Done(create_object(files, RawData(data)))

\* Files::insert; a panic ends the caller's call and leaves what was written
FilesInsert ==
    \E path \in ApiPaths, data \in ApiDatas, t \in {now, now + 1} :
        LET Done(r) == Returned(Call("insert", path, data, Latest, t, r.st, r.err, None,
                                     files), r.F)
        IN Done(files_insert(files, path, data, t))

\* Files::delete
FilesDelete ==
    \E path \in ApiPaths, t \in {now, now + 1} :
        LET Done(r) == Returned(Call("delete", path, <<>>, Latest, t, r.st, r.err, None,
                                     files), r.F)
        IN Done(files_delete(files, path, t))

\* Files::rollback
FilesRollback ==
    \E revision \in {Revision("FromLatest", 1), Revision("FromEarliest", 0),
                     Revision("FromEarliest", MaxCalls + 1), Revision("AsOfTime", 1)},
       t \in {now, now + 1} :
        LET Done(r) == Returned(Call("rollback", <<>>, <<>>, revision, t, r.st, r.err,
                                     None, files), r.F)
        IN Done(files_rollback(files, revision, t))

\* Files::clear
FilesClear ==
    \E t \in {now, now + 1} :
        Returned(Call("clear", <<>>, <<>>, Latest, t, "ok", "", None, files),
                 clear(files, t))

\* Files::set_admin_key, a write to the keyring
FilesSetAdminKey ==
    \E t \in {now, now + 1} :
        LET Done(r) == Returned(Call("set_admin_key", <<>>, <<>>, Latest, t, r.st, r.err,
                                     None, files), r.F)
        IN Done(set_admin_key(files, K_admin, t))

\* Files::get
FilesGet ==
    \E path \in {P_a, P_d_a}, revision \in {Latest, Revision("FromEarliest", 1)} :
        LET Done(r) == Returned(Call("get", path, <<>>, revision, now, r.st, r.err,
                                     r.val, files), files)
        IN Done(files_get(files, path, revision))

\* Files::get_node
FilesGetNode ==
    \E path \in {P_root, P_a}, revision \in {Latest} :
        LET Done(r) == Returned(Call("get_node", path, <<>>, revision, now, r.st, r.err,
                                     r.val, files), files)
        IN Done(files_get_node(files, path, revision))

NextFiles ==
    \/ FilesCreateObject
    \/ FilesInsert
    \/ FilesDelete
    \/ FilesRollback
    \/ FilesClear
    \/ FilesSetAdminKey
    \/ FilesGet
    \/ FilesGetNode

SpecFiles == Init /\ [][NextFiles]_vars

\* ------------------------------------------------- one caller of the keyring
\* the keys the caller passes: any valid pair can be stored as the admin key,
\* and a server key is a pair signed, or not, by one of them
AdminKeys == {K_admin, K_client, K_bad}
ServerKeys == {K_server, K_server_unsigned, KeySign(K_client, K_admin).key,
               KeySign(K_server_unsigned, K_client).key}
K_client_public == Key("Public", PubKeyRaw(K_client), <<>>, None)
PresentedKeys == {K_client, K_client_public, K_other, K_bad}

\* Configure::call: set_admin_key, set_server_key, trust_client
KeysConfigure ==
    \E server \in {K_server, K_server_unsigned} :
        LET Done(r) == Returned(Call("configure", <<>>, server, Latest, now, r.st, r.err,
                                     None, files), r.F)
        IN Done(ConfigureCall(files, {"CONFIGURE"}, K_admin, server, K_client, now))

\* Files::set_admin_key
KeysSetAdminKey ==
    \E key \in AdminKeys :
        LET Done(r) == Returned(Call("set_admin_key", <<>>, key, Latest, now, r.st, r.err,
                                     None, files), r.F)
        IN Done(set_admin_key(files, key, now))

\* Files::set_server_key
KeysSetServerKey ==
    \E key \in ServerKeys :
        LET Done(r) == Returned(Call("set_server_key", <<>>, key, Latest, now, r.st, r.err,
                                     None, files), r.F)
        IN Done(set_server_key(files, key, now))

\* Files::get_server_key
KeysGetServerKey ==
    LET Done(r) == Returned(Call("get_server_key", <<>>, <<>>, Latest, now, r.st, r.err,
                                 Some(r.key), files), files)
    IN Done(get_server_key(files))

\* Files::trust_client
KeysTrustClient ==
    LET Done(r) == Returned(Call("trust_client", <<>>, K_client, Latest, now, r.st, r.err,
                                 None, files), r.F)
    IN Done(trust_client(files, K_client, now))

\* Files::verify_client
KeysVerifyClient ==
    \E key \in PresentedKeys :
        LET Done(r) == Returned(Call("verify_client", <<>>, key, Latest, now, r.st, r.err,
                                     Some(r.val), files), files)
        IN Done(verify_client(files, key))

NextKeys ==
    \/ KeysConfigure
    \/ KeysSetAdminKey
    \/ KeysSetServerKey
    \/ KeysGetServerKey
    \/ KeysTrustClient
    \/ KeysVerifyClient
    \/ FilesClear

SpecKeys == Init /\ [][NextKeys]_vars

\* ------------------------------- callers of Files::insert at the same time
\* how many histories the reader reads
MaxReads == 2

\* the file each caller inserts
CallerPath == 1 :> P_a @@ 2 :> P_d_a @@ 3 :> <<47, 100, 47, 98>>
CallerData == 1 :> <<1>> @@ 2 :> <<2>> @@ 3 :> <<1>>

concRest == <<connVars, wireVars, apiVars, syncVars>>

\* Files::insert up to the call of set_root: the object of the data is
\* created, get_root loads the latest Node and the closure changes the copy
ConcGetRoot(c) ==
    /\ cpc[c] = "start"
    /\ LET Loaded(F, g) ==
               /\ g.st = "ok"
               /\ LET Changed(r) == /\ r.st = "ok"
                                    /\ cnode' = [cnode EXCEPT ![c] = r.node]
                  IN Changed(node_insert(
                         make_dir_recursive(g.node, ParentChild(CallerPath[c]).parent, now).node,
                         CallerPath[c], Sha256(RawData(CallerData[c])), now))
               /\ files' = F
       IN Loaded(create_object(files, RawData(CallerData[c])).F,
                 get_root(files, "fs", Latest))
    /\ cpc' = [cpc EXCEPT ![c] = "serialize"]
    /\ UNCHANGED <<now, cobj, seen, concRest>>

\* Files::set_root, first half: serialize stores the Node as an Object
ConcSerialize(c) ==
    /\ cpc[c] = "serialize"
    /\ LET Stored(r) == /\ files' = r.F
                        /\ cobj' = [cobj EXCEPT ![c] = r.object]
       IN Stored(create_object(files, NodeData(cnode[c])))
    /\ cpc' = [cpc EXCEPT ![c] = "merge"]
    /\ UNCHANGED <<now, cnode, seen, concRest>>

\* Files::set_root, second half: roots.merge runs root_merge atomically on
\* the value stored under the root
ConcMerge(c) ==
    /\ cpc[c] = "merge"
    /\ \E t \in {now, now + 1} :
          /\ t <= MaxTime
          /\ files' = root_merge(files, "fs", cobj[c], t)
          /\ now' = t
    /\ cpc' = [cpc EXCEPT ![c] = "done"]
    /\ UNCHANGED <<cnode, cobj, seen, concRest>>

\* Files::get_history by a reader
ConcRead ==
    /\ Len(seen) < MaxReads
    /\ seen' = Append(seen, files_get_history(files).val)
    /\ UNCHANGED <<files, now, cpc, cnode, cobj, concRest>>

NextConc ==
    \/ \E c \in Callers : ConcGetRoot(c) \/ ConcSerialize(c) \/ ConcMerge(c)
    \/ ConcRead

SpecConc == Init /\ [][NextConc]_vars

\* ------------------------------------------------- the sync client's loop
\* how many times the user, another client, the timer or the watcher act
MaxEnv == 2

syncRest == <<connVars, wireVars, apiVars, concVars>>

\* the folder and the server as the client finds them when it starts; the
\* Resync that SyncClient::init queues is the first event
InitSync ==
    /\ files \in SyncRemotes
    /\ now = 1
    /\ local \in SyncLocals
    /\ InitRest

\* a step of the client ends with r: Err ends run, Ok goes on to phase
Stepped(r, step, phase, work, pass) ==
    /\ local' = r.L
    /\ files' = r.F
    /\ squeue' = (IF sphase = "loop" THEN Tail(squeue) ELSE squeue) \o r.events
    /\ slast' = step
    /\ sphase' = IF r.st = "err" THEN "ended" ELSE phase
    /\ swork' = work
    /\ srun' = IF pass THEN [srun EXCEPT !.reqs = @ \o r.reqs,
                                         !.over = r.st = "ok" /\ phase = "loop"]
               ELSE srun

\* SyncClient::init_resync up to its loop: glob, then GET_NODE of "/"
SyncInitResync ==
    /\ sphase = "init"
    /\ LET Listed(g) ==
              /\ sphase' = IF g.st # "ok" THEN "ended"
                           ELSE IF glob(local) = {} THEN "loop" ELSE "init_files"
              /\ slisting' = IF g.st = "ok" THEN files_get_node(files, <<SLASH>>, Latest).val[1]
                             ELSE slisting
              /\ swork' = IF g.st = "ok" THEN glob(local) ELSE {}
              /\ slast' = Step("init_resync", <<SLASH>>, "", "",
                               SyncRet(g.st, local, files,
                                       <<Req("GET_NODE", <<SLASH>>, g.st = "ok")>>, <<>>),
                               local, files, slisting')
              /\ srun' = [Pass("init_resync", local, files, FALSE) EXCEPT
                              !.over = g.st = "ok" /\ glob(local) = {}]
       IN Listed(GetNodeCall(files, FsMethods, <<SLASH>>, Latest))
    /\ UNCHANGED <<files, now, local, squeue, senv, syncRest>>

\* one iteration of init_resync's loop, for the next entry of the glob
SyncInitFile ==
    /\ sphase = "init_files"
    /\ LET t == now IN
          /\ now' = t
          /\ LET entry == CHOOSE p \in swork : \A q \in swork \ {p} : GlobLess(p, q)
                 rest == swork \ {entry}
                 phase == IF rest = {} THEN "loop" ELSE "init_files"
                 path == remote_path(entry)
                 Done(r, status) ==
                     Stepped(r, Step("resync_file", path, "", status, r,
                                     local, files, slisting), phase, rest, TRUE)
             IN IF ~local_is_file(local, entry)
                THEN Stepped(SyncRet("ok", local, files, <<>>, <<>>),
                             Step("skip", path, "", "", SyncRet("ok", local, files, <<>>, <<>>),
                                  local, files, slisting),
                             phase, rest, TRUE)
                ELSE IF ~PathValid(path)
                THEN Done(SyncRet("err", local, files, <<>>, <<>>), "")
                ELSE Done(resync_file(local, files, slisting, path, t),
                          compare(local, slisting, path).status)
    /\ UNCHANGED <<slisting, senv, syncRest>>

\* SyncClient::run receives SyncEvent::Resync; resync up to its loop:
\* GET_NODE of "/" and the iterator over the listing
SyncResync ==
    /\ sphase = "loop" /\ squeue # <<>> /\ Head(squeue).ev = "Resync"
    /\ LET Listed(g) ==
              /\ sphase' = IF g.st # "ok" THEN "ended" ELSE "resync"
              /\ slisting' = IF g.st = "ok" THEN files_get_node(files, <<SLASH>>, Latest).val[1]
                             ELSE slisting
              /\ swork' = IF g.st = "ok"
                          THEN {iter(slisting')[i] : i \in 1..Len(iter(slisting'))} ELSE {}
              /\ slast' = Step("resync", <<SLASH>>, "", "",
                               SyncRet(g.st, local, files,
                                       <<Req("GET_NODE", <<SLASH>>, g.st = "ok")>>, <<>>),
                               local, files, slisting')
              /\ srun' = Pass("resync", local, files,
                               srun.kind = "resync" /\ srun.over /\ srun.quiet)
       IN Listed(GetNodeCall(files, FsMethods, <<SLASH>>, Latest))
    /\ squeue' = Tail(squeue)
    /\ UNCHANGED <<files, now, local, senv, syncRest>>

\* one iteration of resync's loop: the iterator yields the children of a
\* directory in the order of a HashMap, any order
SyncResyncFile ==
    /\ sphase = "resync"
    /\ \E e \in swork : LET t == now IN
          /\ now' = t
          /\ LET rest == swork \ {e}
                 phase == IF rest = {} THEN "loop" ELSE "resync"
                 Done(r, status) ==
                     Stepped(r, Step("resync_file", e.path, "", status, r,
                                     local, files, slisting), phase, rest, TRUE)
             IN IF ~PathValid(e.path)
                THEN Done(SyncRet("err", local, files, <<>>, <<>>), "")
                ELSE IF is_file(e.node) \/ e.node.tag = "None"
                THEN Done(resync_file(local, files, slisting, e.path, t),
                          compare(local, slisting, e.path).status)
                ELSE Stepped(SyncRet("ok", local, files, <<>>, <<>>),
                             Step("skip", e.path, "", "",
                                  SyncRet("ok", local, files, <<>>, <<>>),
                                  local, files, slisting),
                             phase, rest, TRUE)
    /\ UNCHANGED <<slisting, senv, syncRest>>

\* SyncClient::run receives SyncEvent::Notify
SyncNotify ==
    /\ sphase = "loop" /\ squeue # <<>> /\ Head(squeue).ev = "Notify"
    /\ LET t == now IN
          /\ now' = t
          /\ LET Done(r) ==
                     Stepped(r, Step("notify", Head(squeue).path, Head(squeue).kind, "",
                                     r, local, files, slisting), "loop", swork,
                             FALSE)
             IN Done(notify_event(local, files, Head(squeue), t))
    /\ UNCHANGED <<slisting, senv, syncRest>>

\* ---- what happens around the client
EnvPaths == {P_d_a}
EnvDatas == {<<1>>, <<2>>}

\* the client is between two events: it waits in recv, or run has returned.
\* The others act between the events of the client, never inside one.
Waiting == sphase \in {"loop", "ended"}

\* somebody else acts: the folder or the server is no longer as the last pass
\* left it
Disturbed ==
    /\ Waiting
    /\ senv < MaxEnv
    /\ senv' = senv + 1
    /\ srun' = [srun EXCEPT !.quiet = FALSE]
    /\ UNCHANGED <<sphase, slisting, swork, slast, syncRest>>

\* the user writes a file in the folder; the watcher queues its events
EnvWrite ==
    /\ Disturbed
    /\ \E path \in EnvPaths, data \in EnvDatas, t \in {now, now + 1} :
          /\ t <= MaxTime
          /\ now' = t
          /\ LET Written(mk, wr) ==
                     /\ wr.st = "ok"
                     /\ local' = wr.L
                     /\ squeue' = squeue \o WriteEvents(local, local_path(path))
                 W(mk) == Written(mk, fs_write(mk.L, local_path(path), data, t))
             IN W(create_dir_all(local, local_path(ParentChild(path).parent)))
    /\ UNCHANGED files

\* the user removes a file or a directory of the folder
EnvRemove ==
    /\ Disturbed
    /\ \E p \in glob(local) :
          /\ local' = remove_dir_all(local, p)
          /\ squeue' = Append(squeue, Notify("Remove", p))
    /\ UNCHANGED <<files, now>>

\* another client's INSERT is served
EnvInsert ==
    /\ Disturbed
    /\ \E path \in EnvPaths, data \in EnvDatas, t \in {now, now + 1} :
          /\ t <= MaxTime
          /\ now' = t
          /\ LET Served(r) == r.st = "ok" /\ files' = r.F
             IN Served(InsertCall(files, FsMethods, path, data, t))
    /\ UNCHANGED <<local, squeue>>

\* another client's DELETE is served
EnvDelete ==
    /\ Disturbed
    /\ \E path \in EnvPaths \cup {P_d_b} :
          LET Served(r) == r.st = "ok" /\ files' = r.F
          IN Served(DeleteCall(files, FsMethods, path, now))
    /\ UNCHANGED <<now, local, squeue>>

\* the timer task of SyncClient::init sends SyncEvent::Resync
EnvTimer ==
    /\ Waiting
    /\ senv < MaxEnv
    /\ senv' = senv + 1
    /\ squeue' = Append(squeue, ResyncEvent)
    /\ UNCHANGED <<files, now, local, sphase, slisting, swork, slast, srun, syncRest>>

\* the watcher reports an error
EnvWatcherError ==
    /\ Waiting
    /\ senv < MaxEnv
    /\ senv' = senv + 1
    /\ squeue' = Append(squeue, Notify("Error", <<>>))
    /\ UNCHANGED <<files, now, local, sphase, slisting, swork, slast, srun, syncRest>>

NextSync ==
    \/ SyncInitResync
    \/ SyncInitFile
    \/ SyncResync
    \/ SyncResyncFile
    \/ SyncNotify
    \/ EnvWrite
    \/ EnvRemove
    \/ EnvInsert
    \/ EnvDelete
    \/ EnvTimer
    \/ EnvWatcherError

SpecSync == InitSync /\ [][NextSync]_vars

TypeOK ==
    /\ now \in 0..MaxTime
    /\ \A c \in Conns :
          /\ cstate[c] \in {"idle", "open", "closed"}
          /\ methods[c] \subseteq MethodNames
          /\ pc[c] \in {"read", "dispatch", "write"}

\* ---------------------------------------------------------- properties
\* the wire names of the filesystem methods
FsMethodBytes == {NameBytes[name] : name \in
    {"GET", "INSERT", "DELETE", "CLEAR", "ROLLBACK", "GET_NODE", "GET_HISTORY"}}

IsResp(e, status, handler) ==
    e.ev = "resp" /\ e.status = status /\ e.handler = handler

\* an IDENTIFY was answered OK on connection c
Identified(c) == \E i \in 1..Len(log[c]) : IsResp(log[c][i], "OK", "IDENTIFY")

\* a CONFIGURE was answered OK on connection c
Configured(c) == \E i \in 1..Len(log[c]) : IsResp(log[c][i], "OK", "CONFIGURE")

\* the task of connection c takes its dispatch step
Dispatching(c) ==
    /\ cstate[c] = "open" /\ pc[c] = "dispatch"
    /\ (pc'[c] = "write" \/ cstate'[c] = "closed")

LastLog(c) == log[c][Len(log[c])]

\* C1: a filesystem method is dispatched to its handler only on a connection
\* where an earlier IDENTIFY was answered OK; before that, a request naming a
\* filesystem method is answered ERR InvalidMethod, no handler runs, and the
\* object store and the root histories stay as they were.
C1_FsGatedByIdentify ==
    [][\A c \in Conns :
          Dispatching(c) =>
             /\ (request[c].method \in FsMethodBytes /\ ~Identified(c)) =>
                   /\ pc'[c] = "write"
                   /\ response'[c].status = "ERR"
                   /\ response'[c].err = "InvalidMethod"
                   /\ response'[c].handler = ""
                   /\ files' = files
             /\ (pc'[c] = "write" /\ response'[c].handler \in FsMethods) =>
                   Identified(c)]_vars

\* a connection that never identified had a filesystem request refused, on a
\* server that is configured
C1_Witness ==
    \E c \in Conns :
       /\ ~Identified(c)
       /\ get_admin_key(files).st = "ok"
       /\ \E i \in 1..(Len(log[c]) - 1) :
             /\ log[c][i].ev = "req" /\ log[c][i].method \in FsMethodBytes
             /\ log[c][i + 1].ev = "resp" /\ log[c][i + 1].status = "ERR"
             /\ log[c][i + 1].err = "InvalidMethod"

\* C2: at accept the method table holds exactly one method: CONFIGURE when no
\* admin key is persisted, IDENTIFY otherwise.
C2_AcceptTable ==
    [][\A c \in Conns :
          (cstate[c] = "idle" /\ cstate'[c] = "open") =>
              methods'[c] = (IF get_key(files, P_self_admin).st = "ok"
                             THEN {"IDENTIFY"} ELSE {"CONFIGURE"})]_vars

\* the first connection was accepted with CONFIGURE and configured the
\* server; the second was then accepted with IDENTIFY
C2_Witness ==
    /\ Configured(1)
    /\ cstate[2] = "open" /\ log[2] = <<>> /\ pc[2] = "read"
    /\ methods[2] = {"IDENTIFY"}

\* C3: a CONFIGURE answered OK leaves CONFIGURE out of the table and IDENTIFY
\* in it, with the three keys persisted; a later CONFIGURE on the same
\* connection is answered ERR and reaches no handler.
C3_ConfigureOnce ==
    [][\A c \in Conns :
          Dispatching(c) =>
             /\ (pc'[c] = "write" /\ response'[c].handler = "CONFIGURE"
                   /\ response'[c].status = "OK") =>
                   /\ "CONFIGURE" \notin methods'[c]
                   /\ "IDENTIFY" \in methods'[c]
                   /\ get_admin_key(files').st = "ok"
                   /\ get_server_key(files').st = "ok"
                   /\ get_key(files', P_trusted_client).st = "ok"
             /\ (request[c].method = NameBytes.CONFIGURE /\ Configured(c)) =>
                   /\ pc'[c] = "write"
                   /\ response'[c].status = "ERR"
                   /\ response'[c].handler = ""]_vars

\* a connection configured the server, sent CONFIGURE again and got ERR
C3_Witness ==
    \E c \in Conns : \E i, j \in 1..Len(log[c]) :
       /\ i < j /\ j < Len(log[c])
       /\ IsResp(log[c][i], "OK", "CONFIGURE")
       /\ log[c][j].ev = "req" /\ log[c][j].method = NameBytes.CONFIGURE
       /\ log[c][j + 1].ev = "resp" /\ log[c][j + 1].status = "ERR"

\* C4: from the moment an IDENTIFY is answered OK, the table of that
\* connection is exactly the seven filesystem methods, and it stays so.
C4_SevenAfterIdentify ==
    \A c \in Conns :
       (\/ Identified(c)
        \/ pc[c] = "write" /\ response[c].status = "OK"
                           /\ response[c].handler = "IDENTIFY")
       => methods[c] = {"GET", "INSERT", "DELETE", "CLEAR", "ROLLBACK",
                        "GET_NODE", "GET_HISTORY"}

\* an identified connection has since had a filesystem method answered
C4_Witness ==
    \E c \in Conns :
       /\ Identified(c)
       /\ LastLog(c).ev = "resp" /\ LastLog(c).handler \in FsMethods
       /\ pc[c] = "read"

\* C5: after an IDENTIFY refused with InvalidData the connection is open
\* with IDENTIFY registered, ready for another IDENTIFY.
C5_RefusedIdentifyKeepsSession ==
    \A c \in Conns :
       (/\ log[c] # <<>>
        /\ IsResp(LastLog(c), "ERR", "IDENTIFY")
        /\ LastLog(c).err = "InvalidData")
       => /\ cstate[c] = "open"
          /\ pc[c] = "read"
          /\ "IDENTIFY" \in methods[c]

\* C6: after an ERR response (unknown method, undecodable payload, handler
\* error) the connection is open and the task reads the next request.
C6_ErrKeepsSession ==
    \A c \in Conns :
       (log[c] # <<>> /\ LastLog(c).ev = "resp" /\ LastLog(c).status = "ERR")
       => (cstate[c] = "open" /\ pc[c] = "read")

\* C7: requests and responses alternate on a connection, a response is only
\* ever OK or ERR, and when the task is back at its read or has ended every
\* request it read has got its response.
C7_OneResponsePerRequest ==
    \A c \in Conns :
       /\ \A i \in 1..Len(log[c]) :
             /\ log[c][i].ev = (IF i % 2 = 1 THEN "req" ELSE "resp")
             /\ log[c][i].ev = "resp" => log[c][i].status \in {"OK", "ERR"}
       /\ (cstate[c] = "closed" \/ pc[c] = "read") => NumResp(c) = NumReq(c)

\* C8: a stream that ends where a frame would start ends the task cleanly;
\* eight bytes that are not the magic end it with InvalidProtocol, with no
\* request dispatched, no response written and nothing stored.
C8_EofCleanBadMagicFatal ==
    [][\A c \in Conns :
          (cstate[c] = "open" /\ pc[c] = "read" /\ srvVars' # srvVars) =>
             /\ (eof[c] /\ inbuf[c] = <<>> /\ cstate'[c] = "closed") =>
                   (outcome'[c] = "clean" /\ log'[c] = log[c])
             /\ (Len(inbuf[c]) >= 8 /\ Take(inbuf[c], 8) # MAGIC
                   /\ inbuf'[c] # inbuf[c]) =>
                   /\ cstate'[c] = "closed"
                   /\ outcome'[c] = "InvalidProtocol"
                   /\ log'[c] = log[c]
                   /\ files' = files]_vars

\* one connection ended cleanly at a frame boundary after a served request,
\* another ended with InvalidProtocol
C8_Witness ==
    \E c, d \in Conns :
       /\ outcome[c] = "clean" /\ Len(log[c]) = 2
       /\ outcome[d] = "InvalidProtocol" /\ log[d] = <<>>

\* C9: a stream that ends inside a frame, after the frame's first byte, ends
\* the task with an error, never cleanly.
C9_CutFrameIsFatal ==
    [][\A c \in Conns :
          (/\ cstate[c] = "open" /\ pc[c] = "read"
           /\ eof[c] /\ inbuf[c] # <<>>
           /\ cstate'[c] = "closed")
          => outcome'[c] \notin {"", "clean"}]_vars

\* the bytes of the packets written and not yet decoded
RECURSIVE Unread(_)
Unread(i) ==
    IF i > Len(written) THEN <<>> ELSE PacketWrite(written[i]) \o Unread(i + 1)

\* C10: what read_packet decodes from a stream of Packet::write frames are
\* the packets written, in order, with the same method name and data, and
\* each read consumes exactly the bytes of one frame.
C10_RoundTrip ==
    /\ Len(decoded) <= Len(written)
    /\ \A i \in 1..Len(decoded) : decoded[i] = written[i]
    /\ (rstate = "" /\ ~wclosed) => wire = Unread(Len(decoded) + 1)
    /\ (rstate = "" /\ wclosed) => IsPrefix(wire, Unread(Len(decoded) + 1))
    /\ (~wclosed \/ wire # <<>>) => rstate # "none"

\* two frames, the first with an empty name and the second with empty data,
\* were written and read back, and the stream was used up
C10_Witness ==
    /\ Len(decoded) = 2
    /\ decoded[1].method = <<>> /\ decoded[1].data = MAGIC
    /\ decoded[2].method = <<195, 169>> /\ decoded[2].data = <<>>
    /\ wire = <<>>

\* ------------------------------------------- properties of the Files API
\* C11: create_object(b) returns the Object whose hash is the hash of b, and
\* load of that Object returns exactly b: right after the call, and after
\* every later call that is not a clear, which leaves what every stored
\* Object loads as it was.
C11_PutThenLoad ==
    /\ last.op = "create_object" =>
          /\ last.val = Some(Sha256(RawData(last.data)))
          /\ load(files, last.val[1]) = [st |-> "ok", data |-> RawData(last.data)]
    /\ last.op \notin {"", "clear"} =>
          \A object \in DOMAIN last.before.objects :
              load(files, object) = load(last.before, object)

\* a create_object stored new bytes, which load returns
C11_Witness ==
    /\ last.op = "create_object"
    /\ last.val[1] \notin DOMAIN last.before.objects
    /\ load(files, last.val[1]).data.raw = last.data

\* the stored Objects whose content is the bytes
Blobs(F, bytes) == {object \in DOMAIN F.objects : F.objects[object] = RawData(bytes)}

\* the paths other than the last call's where its bytes were a live file
SameContentPaths ==
    {q \in ApiPaths \ {last.path} :
        files_get(last.before, q, Latest).val = Some(last.data)}

\* C12: create_object of bytes whose hash is already a key returns the same
\* Object and leaves the object store unchanged; after the same content was
\* inserted at two paths exactly one blob holds it and both File nodes
\* reference the same Object.
C12_PutIdempotent ==
    /\ (last.op = "create_object"
         /\ Sha256(RawData(last.data)) \in DOMAIN last.before.objects) =>
          /\ last.val = Some(Sha256(RawData(last.data)))
          /\ files = last.before
    /\ (last.op = "insert" /\ last.st = "ok") =>
          \A q \in SameContentPaths :
              /\ Cardinality(Blobs(files, last.data)) = 1
              /\ files_get_node(files, q, Latest).val # None
              /\ is_file(files_get_node(files, q, Latest).val[1])
              /\ files_get_node(files, q, Latest).val[1].file
                     = files_get_node(files, last.path, Latest).val[1].file

\* an insert put at a second path the bytes that another live file holds
C12_Witness ==
    /\ last.op = "insert" /\ last.st = "ok"
    /\ SameContentPaths # {}
    /\ files_get(files, last.path, Latest).val = Some(last.data)

\* the RootHistory of a root, empty for a root that has none
History(F, root) == IF root \in DOMAIN F.roots THEN F.roots[root] ELSE <<>>

\* the root that a call writes with set_root when it succeeds
WrittenRoot(call) ==
    IF call.st # "ok" THEN None
    ELSE IF call.op \in {"insert", "delete", "rollback"} THEN Some("fs")
    ELSE IF call.op = "set_admin_key" THEN Some("keyring")
    ELSE None

\* the Nodes of all snapshots of all roots, and a new empty Dir
SnapshotNodes(F) ==
    {new_dir(now)} \cup
    {get_root(F, root, Revision("FromEarliest", i - 1)).node :
        root \in DOMAIN F.roots, i \in 1..MaxCalls + 2}

\* C13: after set_root(r, N) the history of r is the previous history with
\* exactly one entry appended, and the Object of the new last entry
\* deserializes to a Node equal to N: for every N that is a snapshot or a new
\* Dir, and in every call that ends with a set_root.
C13_SetRootAppends ==
    /\ \A root \in {"fs", "keyring"}, N \in SnapshotNodes(files) :
          LET After(F) ==
                  /\ Len(History(F, root)) = Len(History(files, root)) + 1
                  /\ SubSeq(History(F, root), 1, Len(History(files, root)))
                        = History(files, root)
                  /\ get_root(F, root, Latest) = [st |-> "ok", err |-> "", node |-> N]
          IN After(set_root(files, root, N, now))
    /\ \A root \in {"fs", "keyring"} :
          WrittenRoot(last) = Some(root) =>
              /\ Len(History(files, root)) = Len(History(last.before, root)) + 1
              /\ SubSeq(History(files, root), 1, Len(History(last.before, root)))
                    = History(last.before, root)
              /\ get_root(files, root, Latest).st = "ok"

\* a delete wrote a snapshot to a history that already had two
C13_Witness ==
    /\ last.op = "delete" /\ last.st = "ok"
    /\ Len(History(last.before, "fs")) >= 2
    /\ Len(History(files, "fs")) = Len(History(last.before, "fs")) + 1

\* every history of F is ordered by non-decreasing timestamp
Ordered(F) ==
    \A root \in DOMAIN F.roots :
        \A i \in 1..Len(F.roots[root]) - 1 :
            F.roots[root][i].timestamp <= F.roots[root][i + 1].timestamp

\* every entry that the histories of F had is in the histories of G at the
\* same index: what FromEarliest(i) selected in F it selects in G
Kept(F, G) ==
    \A root \in DOMAIN F.roots :
        /\ Len(History(G, root)) >= Len(F.roots[root])
        /\ SubSeq(History(G, root), 1, Len(F.roots[root])) = F.roots[root]

\* C14 as stated: every history is ordered by non-decreasing timestamp, and
\* no call of the API, clear included, removes, reorders or changes an entry
\* that a history had before the call.
C14_AppendOnlyAlways ==
    /\ Ordered(files)
    /\ last.op # "" => Kept(last.before, files)

\* C14 amended: every history is ordered by non-decreasing timestamp; every
\* call other than clear keeps every entry of every history at its index;
\* clear drops the histories of all roots and leaves "fs" with one new entry.
C14_AppendOnlyUntilClear ==
    /\ Ordered(files)
    /\ last.op \notin {"", "clear"} => Kept(last.before, files)
    /\ last.op = "clear" =>
          /\ DOMAIN files.roots = {"fs"}
          /\ Len(files.roots["fs"]) = 1
          /\ files.roots["fs"][1].timestamp = last.t
          /\ get_root(files, "fs", Latest).node = new_dir(last.t)

\* a third entry was appended to the "fs" history by a call at a later time
C14_Witness ==
    /\ last.op \in {"insert", "delete", "rollback"} /\ last.st = "ok"
    /\ Len(History(last.before, "fs")) = 2
    /\ Len(files.roots["fs"]) = 3
    /\ files.roots["fs"][1].timestamp < files.roots["fs"][3].timestamp

\* the Node that the Object of a history entry deserializes to
EntryNode(F, entry) == F.objects[entry.object].node[1]

\* get_root of root at revision returns the Node of entry i of the history
Selects(F, root, revision, i) ==
    get_root(F, root, revision)
        = [st |-> "ok", err |-> "", node |-> EntryNode(F, F.roots[root][i])]

\* C15: get_root(root, FromLatest(n)) returns the entry at index len-1-n
\* exactly when 0 <= n < len, FromEarliest(n) the entry at index n exactly
\* when 0 <= n < len (indices from 0), and AsOfTime(t) the last entry of the
\* list whose timestamp is below t.
C15_RevisionSelects ==
    \A root \in DOMAIN files.roots, revision \in ApiRevisions :
        LET len == Len(files.roots[root])
            below == {i \in 1..len : files.roots[root][i].timestamp < revision.n}
        IN /\ revision.tag = "FromLatest" =>
                 /\ get_root(files, root, revision).st = "ok" <=> revision.n < len
                 /\ revision.n < len => Selects(files, root, revision, len - revision.n)
           /\ revision.tag = "FromEarliest" =>
                 /\ get_root(files, root, revision).st = "ok" <=> revision.n < len
                 /\ revision.n < len => Selects(files, root, revision, revision.n + 1)
           /\ revision.tag = "AsOfTime" =>
                 /\ get_root(files, root, revision).st = "ok" <=> below # {}
                 /\ below # {} =>
                       Selects(files, root, revision,
                               CHOOSE i \in below : \A j \in below : j <= i)

\* a get at FromEarliest(1) read a file from the middle one of three
\* snapshots, and AsOfTime selects a snapshot that is not the latest
C15_Witness ==
    /\ last.op = "get" /\ last.revision = Revision("FromEarliest", 1)
    /\ last.st = "ok" /\ last.val # None
    /\ Len(files.roots["fs"]) = 3
    /\ \E t \in 1..MaxTime :
          /\ get_root(files, "fs", Revision("AsOfTime", t)).st = "ok"
          /\ get_root(files, "fs", Revision("AsOfTime", t)) # get_root(files, "fs", Latest)

\* the revision selects no entry of the "fs" history of F
OutOfRange(F, revision) == RevisionIndex(History(F, "fs"), revision) = 0

\* C16: a get, get_node or rollback whose selector is out of range returns
\* the Range error as a value: the call does not abort its caller, and the
\* store and the histories are as before the call.
C16_OutOfRangeIsRangeError ==
    (last.op \in {"get", "get_node", "rollback"} /\ OutOfRange(last.before, last.revision)) =>
        /\ last.st = "err"
        /\ last.err = "Range"
        /\ files = last.before

\* the node at path in the latest "fs" snapshot of F, as an Option
LatestNode(F, path) == files_get_node(F, path, Latest).val

\* path is a live file in the latest "fs" snapshot of F
LiveFile(F, path) == LatestNode(F, path) # None /\ is_file(LatestNode(F, path)[1])

\* C17: after insert(p, b) succeeds get(p, FromLatest(0)) returns b; every
\* ancestor of p is a live Dir in the new snapshot, also where it did not
\* exist before; and every other live file of the previous snapshot is still
\* live with the same Object.
C17_InsertThenGet ==
    (last.op = "insert" /\ last.st = "ok") =>
        /\ files_get(files, last.path, Latest)
              = [st |-> "ok", err |-> "", val |-> Some(last.data)]
        /\ \A i \in 1..Len(Ancestors(last.path)) :
              /\ LatestNode(files, Ancestors(last.path)[i]) # None
              /\ is_dir(LatestNode(files, Ancestors(last.path)[i])[1])
        /\ \A q \in ApiPaths \ {last.path} :
              LiveFile(last.before, q) =>
                  /\ LiveFile(files, q)
                  /\ LatestNode(files, q)[1].file = LatestNode(last.before, q)[1].file

\* an insert below a directory that did not exist, next to a live file
C17_Witness ==
    /\ last.op = "insert" /\ last.st = "ok" /\ last.path = P_d_a
    /\ LatestNode(last.before, P_d) = None
    /\ LiveFile(last.before, P_a)
    /\ is_dir(LatestNode(files, P_d)[1])

\* the node at path is a tombstone: present, with no data
Tombstone(opt) == opt # None /\ opt[1].tag = "None"

\* C18: after delete(p) of an existing path the node at p is a tombstone
\* whose timestamp is the time of the delete; get(p, FromLatest(0)) returns
\* none, and the root Node of the latest snapshot still contains p, as a
\* tombstone.
C18_DeleteStampsTombstone ==
    (last.op = "delete" /\ last.st = "ok" /\ LatestNode(last.before, last.path) # None) =>
        /\ Tombstone(LatestNode(files, last.path))
        /\ LatestNode(files, last.path)[1].timestamp = last.t
        /\ files_get(files, last.path, Latest) = [st |-> "ok", err |-> "", val |-> None]
        /\ Tombstone(LET root == LatestNode(files, P_root)[1]
                         tr == traverse(root, last.path)
                     IN IF tr.st = "ok" /\ tr.found THEN Some(tr.node) ELSE None)

\* path is a live file in the snapshot that revision selects in F
LiveAt(F, path, revision) ==
    LET opt == files_get_node(F, path, revision).val
    IN opt # None /\ is_file(opt[1])

\* C19: after rollback(rev) succeeds the live files of the latest snapshot
\* are exactly the files live at rev, each with the Object it had at rev;
\* every path that was a live file before the rollback and is not live at rev
\* is present as a tombstone; and the "fs" history is longer by exactly one.
C19_RollbackRecordsDeletions ==
    (last.op = "rollback" /\ last.st = "ok") =>
        /\ \A q \in ApiPaths :
              /\ LiveFile(files, q) <=> LiveAt(last.before, q, last.revision)
              /\ LiveFile(files, q) =>
                    LatestNode(files, q)[1].file
                       = files_get_node(last.before, q, last.revision).val[1].file
              /\ (LiveFile(last.before, q) /\ ~LiveAt(last.before, q, last.revision)) =>
                    Tombstone(LatestNode(files, q))
        /\ Len(History(files, "fs")) = Len(History(last.before, "fs")) + 1

\* how many times the iterator of node yields path
IterCount(node, path) ==
    Cardinality({k \in 1..Len(iter(node)) : iter(node)[k].path = path})

\* the paths that iter reports for File nodes
IterFiles(node) ==
    {iter(node)[k].path : k \in {j \in 1..Len(iter(node)) : is_file(iter(node)[j].node)}}

\* C20: in the snapshot of every revision, for every path p that is a
\* tombstone: get(p, R) returns none, file_list does not yield p and iter
\* yields p exactly once; file_list yields exactly the live File nodes, each
\* once, under the absolute path that iter reports for it.
C20_TombstonesAndListing ==
    \A revision \in ApiRevisions :
        get_root(files, "fs", revision).st = "ok" =>
            LET Holds(root, list) ==
                    /\ \A p \in ApiPaths :
                          Tombstone(files_get_node(files, p, revision).val) =>
                              /\ files_get(files, p, revision).val = None
                              /\ \A k \in 1..Len(list) : list[k].path # p
                              /\ IterCount(root, p) = 1
                    /\ {list[k].path : k \in 1..Len(list)} = IterFiles(root)
                    /\ \A k, j \in 1..Len(list) : list[k].path = list[j].path => k = j
                    /\ \A k \in 1..Len(list) :
                          /\ LiveAt(files, list[k].path, revision)
                          /\ files_get_node(files, list[k].path, revision).val[1].file
                                = Some(list[k].object)
                    /\ \A p \in ApiPaths :
                          LiveAt(files, p, revision) =>
                              \E k \in 1..Len(list) : list[k].path = p
            IN Holds(get_root(files, "fs", revision).node,
                     file_list(get_root(files, "fs", revision).node).val)

\* ------------------------------------------- properties of the keyring
\* a key is stored at /trusted/client, its signature is the Ed25519 signature
\* of its kind under the public key of the server key that get_server_key
\* returns, and its raw public bytes are those of the presented key
TrustedMatches(F, key) ==
    LET Matches(s, c) ==
            /\ s.st = "ok" /\ c.st = "ok"
            /\ ~PubKeyPanics(s.key) /\ ~PubKeyPanics(c.key) /\ ~PubKeyPanics(key)
            /\ c.key.signature # None
            /\ Ed25519Verify(PubKeyRaw(s.key), SerKind(c.key.kind), c.key.signature[1])
            /\ PubKeyRaw(c.key) = PubKeyRaw(key)
    IN Matches(get_server_key(F), get_key(F, P_trusted_client))

\* C21: verify_client(k) returns true if and only if a key is stored at
\* /trusted/client, its signature verifies under the current server key and
\* its raw public bytes equal those of k; in every other case it does not
\* return true and IDENTIFY does not register the filesystem methods.
C21_VerifyClientIff ==
    /\ \A key \in PresentedKeys :
          /\ verify_client(files, key) = [st |-> "ok", err |-> "", val |-> TRUE]
                <=> TrustedMatches(files, key)
          /\ ~TrustedMatches(files, key) =>
                IdentifyCall(files, {"IDENTIFY"}, key).M \cap FsMethods = {}
          /\ TrustedMatches(files, key) =>
                IdentifyCall(files, {"IDENTIFY"}, key).M = FsMethods
    /\ last.op = "verify_client" =>
          (last.st = "ok" /\ last.val = Some(TRUE) <=> TrustedMatches(files, last.data))

\* verify_client refused the public half of the trusted key, because the
\* server key was replaced after the client key was signed
C21_Witness ==
    /\ last.op = "verify_client" /\ last.data = K_client_public
    /\ last.st = "ok" /\ last.val = Some(FALSE)
    /\ get_key(files, P_trusted_client).st = "ok"
    /\ verify_client(files, K_other).st = "ok"

\* the signature of key verifies under the admin key stored in F
SignedByAdmin(F, key) ==
    LET Signed(a) ==
            /\ a.st = "ok" /\ ~PubKeyPanics(a.key)
            /\ key.signature # None
            /\ Ed25519Verify(PubKeyRaw(a.key), SerKind(key.kind), key.signature[1])
    IN Signed(get_admin_key(F))

\* C22: set_server_key(key) stores key at /self/server only if its signature
\* verifies under the stored admin key, and otherwise returns an error and
\* leaves the keyring history unchanged; get_server_key returns the stored
\* key only if its signature verifies under the admin key stored at the time
\* of the read, so while the stored server key is not signed by the stored
\* admin key get_server_key, trust_client and verify_client return errors.
C22_ServerKeySignedByAdmin ==
    /\ last.op = "set_server_key" =>
          IF SignedByAdmin(last.before, last.data)
          THEN /\ last.st = "ok"
               /\ get_key(files, P_self_server).key = last.data
          ELSE /\ last.st = "err"
               /\ History(files, "keyring") = History(last.before, "keyring")
    /\ get_key(files, P_self_server).st = "ok" =>
          IF SignedByAdmin(files, get_key(files, P_self_server).key)
          THEN get_server_key(files) = get_key(files, P_self_server)
          ELSE /\ get_server_key(files).st = "err"
               /\ trust_client(files, K_client, now).st = "err"
               /\ \A key \in PresentedKeys : verify_client(files, key).st = "err"

\* the node is a live Dir with no children
EmptyDir(opt) == opt # None /\ is_dir(opt[1]) /\ DOMAIN opt[1].dir = {}

\* the node at path in the latest snapshot of the keyring, as an Option
KeyringNode(F, path) ==
    LET At(g) == IF g.st = "ok" /\ traverse(g.node, path).st = "ok"
                    /\ traverse(g.node, path).found
                 THEN Some(traverse(g.node, path).node) ELSE None
    IN At(get_root(F, "keyring", Latest))

\* C23: after clear() the object store holds only the seeded Nodes, and the
\* roots fs and keyring both exist: the latest fs snapshot is an empty live
\* Dir, the latest keyring snapshot has the empty Dirs /self and /trusted
\* and no keys, and get_node("/", FromLatest(0)) and reads of the keyring do
\* not fail for a missing root.
C23_ClearReseedsBothRoots ==
    last.op = "clear" =>
        /\ DOMAIN files.roots = {"fs", "keyring"}
        /\ \A object \in DOMAIN files.objects : files.objects[object].node # None
        /\ files_get_node(files, P_root, Latest).st = "ok"
        /\ EmptyDir(files_get_node(files, P_root, Latest).val)
        /\ get_root(files, "keyring", Latest).st = "ok"
        /\ EmptyDir(KeyringNode(files, P_self))
        /\ EmptyDir(KeyringNode(files, P_trusted))

\* ------------------------------------ properties of concurrent set_root
\* the callers whose set_root has returned
Finished == {c \in Callers : cpc[c] = "done"}

\* list is history cut after some entry
PrefixOf(list, history) ==
    Len(list) <= Len(history) /\ list = SubSeq(history, 1, Len(list))

\* C24: when set_root calls on one root run concurrently the history is the
\* prior history followed by one entry for every call that returned, in one
\* order, none lost or overwritten; a concurrent reader gets the prior list
\* extended by a prefix of that order, and every entry it gets names a stored
\* Node.
C24_ConcurrentSetRoot ==
    LET history == files.roots["fs"]
        prior == FilesOpen.roots["fs"]
    IN /\ PrefixOf(prior, history)
       /\ Len(history) = Len(prior) + Cardinality(Finished)
       /\ \A c \in Finished :
             Cardinality({i \in Len(prior) + 1..Len(history) :
                             history[i].object = cobj[c]}) = 1
       /\ \A k \in 1..Len(seen) :
             /\ PrefixOf(prior, seen[k])
             /\ PrefixOf(seen[k], history)
             /\ \A i \in 1..Len(seen[k]) :
                   /\ seen[k][i].object \in DOMAIN files.objects
                   /\ files.objects[seen[k][i].object].node # None

\* three set_root calls have returned and the reader saw the history after
\* the first and after the second of them
C24_Witness ==
    /\ Finished = Callers
    /\ Len(seen) = 2
    /\ Len(seen[1]) = 2 /\ Len(seen[2]) = 3
    /\ Len(files.roots["fs"]) = 4

\* ------------------------------------------------ the sync client's steps
\* the last step of the client was resync_file of a well-formed path
Reconciled == slast.op = "resync_file" /\ PathValid(slast.path)

\* the node of the listing at the path of the last step, None if there is none
RemoteNode ==
    LET tr == traverse(slast.root, slast.path)
    IN IF tr.st = "ok" /\ tr.found THEN Some(tr.node) ELSE None

\* the local path of the last step, and whether a file of other content than
\* the remote File was there
LastLocal == local_path(slast.path)
LocalDiffers ==
    /\ local_is_file(slast.L, LastLocal)
    /\ Sha256(RawData(slast.L[LastLocal].data)) # RemoteNode[1].file[1]

\* the last step did nothing
NoAction == slast.reqs = <<>> /\ slast.La = slast.L /\ slast.Fa = slast.F

\* the last step sent one GET for its path and nothing else, and where it
\* ended Ok the local file holds the server's content
Fetched ==
    /\ slast.reqs = <<Req("GET", slast.path, TRUE)>>
    /\ slast.Fa = slast.F
    /\ slast.st = "ok" =>
          /\ local_is_file(slast.La, LastLocal)
          /\ Some(slast.La[LastLocal].data) = files_get(slast.F, slast.path, Latest).val

\* the last step sent one INSERT for its path and nothing else and left the
\* folder as it was, and where it ended Ok the server holds the local content
Uploaded ==
    /\ slast.reqs = <<Req("INSERT", slast.path, slast.st = "ok")>>
    /\ slast.La = slast.L
    /\ slast.st = "ok" =>
          files_get(slast.Fa, slast.path, Latest).val = Some(slast.L[LastLocal].data)

\* C25: when resync_file finds a live File at p in the listing: a local file
\* of the same hash causes no action; a local file of another hash with
\* mtime > the node's timestamp is uploaded with INSERT; one with mtime <= the
\* timestamp is overwritten by a GET; and where nothing exists locally the
\* file is fetched.
C25_LiveRemoteFile ==
    (Reconciled /\ RemoteNode # None /\ is_file(RemoteNode[1])) =>
        /\ (local_is_file(slast.L, LastLocal) /\ ~LocalDiffers) => NoAction
        /\ (LocalDiffers /\ slast.L[LastLocal].mtime > RemoteNode[1].timestamp) => Uploaded
        /\ (LocalDiffers /\ slast.L[LastLocal].mtime <= RemoteNode[1].timestamp) => Fetched
        /\ ~local_exists(slast.L, LastLocal) => Fetched

\* a local file of other content and of the remote node's timestamp was
\* overwritten with the server's content
C25_Witness ==
    /\ Reconciled /\ RemoteNode # None /\ is_file(RemoteNode[1])
    /\ LocalDiffers /\ slast.L[LastLocal].mtime = RemoteNode[1].timestamp
    /\ slast.st = "ok" /\ slast.reqs = <<Req("GET", slast.path, TRUE)>>
    /\ slast.La[LastLocal].data # slast.L[LastLocal].data

\* the last step removed what was at its local path, with all below it, and
\* nothing else
LocalDeleted ==
    /\ DOMAIN slast.La = {q \in DOMAIN slast.L : ~Below(LastLocal, q)}
    /\ \A q \in DOMAIN slast.La : slast.La[q] = slast.L[q]

\* C26: when resync_file finds a tombstone at p in the listing, whatever
\* exists at the local path, file or directory with its tree, is deleted, and
\* nothing is done where nothing exists; no INSERT and no GET is sent.
C26_RemoteTombstone ==
    (Reconciled /\ RemoteNode # None /\ RemoteNode[1].tag = "None") =>
        /\ slast.st = "ok"
        /\ slast.reqs = <<>> /\ slast.Fa = slast.F
        /\ IF local_exists(slast.L, LastLocal)
           THEN LocalDeleted /\ ~local_exists(slast.La, LastLocal)
           ELSE slast.La = slast.L

\* a local directory with a file in it was deleted for a remote tombstone
C26_Witness ==
    /\ Reconciled /\ RemoteNode # None /\ RemoteNode[1].tag = "None"
    /\ local_is_dir(slast.L, LastLocal)
    /\ \E q \in DOMAIN slast.L : q # LastLocal /\ Below(LastLocal, q)
    /\ \A q \in DOMAIN slast.La : ~Below(LastLocal, q)

\* the listing has no node at the path of the last step
RemoteAbsent ==
    LET tr == traverse(slast.root, slast.path) IN tr.st = "ok" /\ ~tr.found

\* C27: when the listing has no node at p or a live Dir at p, resync_file
\* takes p as having no remote file: a local file at p is uploaded with INSERT
\* and is not deleted locally.
C27_NoRemoteFile ==
    (/\ Reconciled
     /\ RemoteAbsent \/ (RemoteNode # None /\ is_dir(RemoteNode[1]))
     /\ local_is_file(slast.L, LastLocal)) =>
        /\ slast.reqs = <<Req("INSERT", slast.path, slast.st = "ok")>>
        /\ slast.La = slast.L

\* a periodic resync has run to its end, or to the error that ended it, and
\* nobody else has acted since it began
ResyncDone ==
    /\ srun.kind = "resync" /\ srun.quiet
    /\ sphase \in {"loop", "ended"}
    /\ slast.op \in {"resync", "resync_file", "skip"}

\* the node of the pass's listing at a remote path, None if there is none
ListedNode(path) ==
    LET tr == traverse(slisting, path)
    IN IF tr.st = "ok" /\ tr.found THEN Some(tr.node) ELSE None

\* every live file of the listing that had nothing at its local path when the
\* pass began is now a local file with the server's content
FetchedAll ==
    \A i \in 1..Len(iter(slisting)) :
        LET e == iter(slisting)[i] IN
        (is_file(e.node) /\ ~local_exists(srun.L, local_path(e.path))) =>
            /\ local_is_file(local, local_path(e.path))
            /\ local[local_path(e.path)].data = load(srun.F, e.node.file[1]).data.raw

\* every local path of the start of the pass whose node in the listing is a
\* tombstone is gone
DeletedAll ==
    \A q \in glob(srun.L) :
        (ListedNode(remote_path(q)) # None /\ ListedNode(remote_path(q))[1].tag = "None")
            => ~local_exists(local, q)

C29_ErrorsDoNotEndLoop ==
    (slast.op \in {"resync_file", "notify"} /\ slast.st = "err") => sphase # "ended"

\* the last step handled a Notify event; the remote path of the event's path
Notified == slast.op = "notify"
NotifiedRemote == remote_path(slast.path)

\* the server, as the handler found it, has a live File at the remote path
\* whose Object is the hash of the local bytes
RemoteSame ==
    LET n == files_get_node(slast.F, NotifiedRemote, Latest).val IN
    /\ n # None /\ is_file(n[1])
    /\ n[1].file[1] = Sha256(RawData(slast.L[slast.path].data))

\* C30: for a Notify event the client sends an INSERT for a path only if the
\* kind is Modify, the path lies under D and is a regular file, and the hash
\* of its bytes differs from the Object of the live remote file there or the
\* remote has no live file there; it sends no GET and changes nothing locally,
\* and a Create or Remove event causes no request and no change at all.
C30_NotifyInsertsOnlyModified ==
    Notified =>
        /\ \A i \in 1..Len(slast.reqs) :
              /\ slast.reqs[i].method # "GET"
              /\ slast.reqs[i].method = "INSERT" =>
                    /\ slast.kind = "Modify"
                    /\ slast.path # D /\ Below(D, slast.path)
                    /\ local_is_file(slast.L, slast.path)
                    /\ slast.reqs[i].path = NotifiedRemote
                    /\ ~RemoteSame
        /\ slast.La = slast.L
        /\ slast.kind \in {"Create", "Remove"} =>
              slast.reqs = <<>> /\ slast.Fa = slast.F /\ slast.st = "ok"

\* a Modify event for a local file whose bytes differ from the live remote
\* file was answered with an INSERT that the server accepted
C30_Witness ==
    /\ Notified /\ slast.kind = "Modify" /\ slast.st = "ok"
    /\ files_get_node(slast.F, NotifiedRemote, Latest).val # None
    /\ is_file(files_get_node(slast.F, NotifiedRemote, Latest).val[1])
    /\ \E i \in 1..Len(slast.reqs) : slast.reqs[i] = Req("INSERT", NotifiedRemote, TRUE)
    /\ files_get(slast.Fa, NotifiedRemote, Latest).val = Some(slast.L[slast.path].data)

\* ------------------------------------------- failed and repeated writes
\* some ancestor of path is a node of the latest "fs" snapshot of F that is
\* not a live Dir
ThroughNonDir(F, path) ==
    \E i \in 1..Len(Ancestors(path)) :
        /\ LatestNode(F, Ancestors(path)[i]) # None
        /\ ~is_dir(LatestNode(F, Ancestors(path)[i])[1])

\* the call that was made last was a delete of a path without a node
DeletedMissing == last.op = "delete" /\ LatestNode(last.before, last.path) = None

\* C31: delete(p) of a path that has no node in the latest fs snapshot fails
\* with NotFound and appends nothing to the fs history; the latest snapshot
\* and the object store stay as they were.
C31_DeleteMissingNotFound ==
    DeletedMissing => (last.st = "err" /\ last.err = "NotFound" /\ files = last.before)

\* C31, with the error told apart: the delete of a path without a node fails
\* and leaves the Files as they were; the error is NotADirectory where an
\* ancestor of the path is a File or a tombstone, and NotFound otherwise.
C31_DeleteMissingFails ==
    DeletedMissing =>
        /\ last.st = "err" /\ files = last.before
        /\ last.err = IF ThroughNonDir(last.before, last.path) THEN "NotADirectory"
                      ELSE "NotFound"

\* a delete of a missing path failed with NotFound after the history had
\* grown, and the history is as it was
C31_Witness ==
    /\ DeletedMissing /\ last.err = "NotFound"
    /\ Len(History(last.before, "fs")) > 1
    /\ History(files, "fs") = History(last.before, "fs")

\* the paths make_dir is tried with: /a, /d, /d/a and /d/a/c
MkPaths == {P_a, P_d, P_d_a, P_d_a \o <<SLASH, 99>>}

\* the root Node of the latest "fs" snapshot
LatestRoot == get_root(files, "fs", Latest).node

\* the node of the tree N at path, None where traverse does not return one
At(N, path) ==
    LET tr == traverse(N, path) IN IF tr.st = "ok" /\ tr.found THEN Some(tr.node) ELSE None

\* make_dir(path) on the latest root at the time now: what it does where the
\* parent is a live Dir, and where the parent is a File or a tombstone
MakeDirBelowNode(path) ==
    LET parent == ParentChild(path).parent
        name == ParentChild(path).child[1]
        r == make_dir(LatestRoot, path, now)
    IN /\ (At(LatestRoot, parent) # None /\ is_dir(At(LatestRoot, parent)[1])
              /\ name \notin DOMAIN At(LatestRoot, parent)[1].dir) =>
              /\ r.st = "ok"
              /\ At(r.node, path) = Some(new_dir(now))
              /\ DOMAIN At(r.node, parent)[1].dir
                    = DOMAIN At(LatestRoot, parent)[1].dir \cup {name}
              /\ \A n \in DOMAIN At(LatestRoot, parent)[1].dir :
                    At(r.node, parent)[1].dir[n] = At(LatestRoot, parent)[1].dir[n]
              /\ \A q \in MkPaths \cup {P_root} :
                    ~(q = parent \/ IsPrefix(q, parent) \/ IsPrefix(parent, q))
                        => At(r.node, q) = At(LatestRoot, q)
       /\ (At(LatestRoot, parent) # None /\ is_dir(At(LatestRoot, parent)[1])
              /\ name \in DOMAIN At(LatestRoot, parent)[1].dir) => r = Ok(LatestRoot)
       /\ (At(LatestRoot, parent) # None /\ ~is_dir(At(LatestRoot, parent)[1])) =>
              r = Err("NotADirectory", LatestRoot)

\* make_dir_recursive(path) is make_dir on the prefixes of the path's parts,
\* shortest first, and stops at the first error
RECURSIVE MakeEach(_, _, _, _)
MakeEach(N, parts, k, t) ==
    IF k > Len(parts) THEN Ok(N)
    ELSE LET r == make_dir(N, JoinParts(Take(parts, k)), t)
         IN IF r.st = "err" THEN r ELSE MakeEach(r.node, parts, k + 1, t)
RecursiveIsEach(path) ==
    make_dir_recursive(LatestRoot, path, now) = MakeEach(LatestRoot, Parts(path), 1, now)

\* C32: make_dir(parent/name) inserts a new empty live Dir under a parent that
\* is a live Dir without a child of the name; changes nothing when the child
\* exists, be it a Dir, a File or a tombstone; fails with NotFound when the
\* parent has no node and with NotADirectory when the parent is a File or a
\* tombstone. make_dir_recursive(p) applies make_dir to every ancestor of p
\* below the root from the root down and then to p.
C32_MakeDir ==
    \A path \in MkPaths :
        /\ MakeDirBelowNode(path)
        /\ At(LatestRoot, ParentChild(path).parent) = None =>
              make_dir(LatestRoot, path, now) = Err("NotFound", LatestRoot)
        /\ RecursiveIsEach(path)

\* C32, with the error of a missing parent told apart: NotADirectory where an
\* ancestor of the parent is a File or a tombstone, NotFound otherwise.
C32_MakeDirErrors ==
    \A path \in MkPaths :
        /\ MakeDirBelowNode(path)
        /\ At(LatestRoot, ParentChild(path).parent) = None =>
              make_dir(LatestRoot, path, now) =
                  Err(IF ThroughNonDir(files, ParentChild(path).parent)
                      THEN "NotADirectory" ELSE "NotFound", LatestRoot)
        /\ RecursiveIsEach(path)

\* an insert has made the directory /d with make_dir_recursive; in the tree
\* it left make_dir finds a parent without the child (/d for /d/a/c's parent
\* is there), a child that exists, and a File as parent
C32_Witness ==
    /\ last.op = "insert" /\ last.st = "ok" /\ last.path = P_d_a
    /\ At(get_root(last.before, "fs", Latest).node, P_d) = None
    /\ At(LatestRoot, P_d) # None /\ is_dir(At(LatestRoot, P_d)[1])
    /\ At(LatestRoot, P_d_a) # None /\ is_file(At(LatestRoot, P_d_a)[1])
    /\ make_dir(LatestRoot, P_d_a \o <<SLASH, 99>>, now).err = "NotADirectory"
    /\ make_dir(LatestRoot, P_a, now).st = "ok"
    /\ At(make_dir(LatestRoot, P_a, now).node, P_a) = Some(new_dir(now))


\* C33: when inserts to different paths run at the same time and each
\* returns Ok, the latest "fs" snapshot after they have all finished holds
\* every one of the files as a live file with the caller's Object.
C33_ConcurrentInsertsKept ==
    Finished = Callers =>
        \A c \in Callers :
            /\ LiveFile(files, CallerPath[c])
            /\ LatestNode(files, CallerPath[c])[1].file = Some(Sha256(RawData(CallerData[c])))


\* the task of connection c dispatches a request that names CONFIGURE
DispatchingConfigure(c) == Dispatching(c) /\ request[c].method = NameBytes.CONFIGURE

\* C34: once a CONFIGURE has been answered OK on some connection, no later
\* CONFIGURE on any connection is answered OK or changes the keyring, also
\* not on a connection that was accepted while the server was unconfigured.
C34_ConfigureOnceAcrossConnections ==
    [][\A c \in Conns :
          (DispatchingConfigure(c) /\ \E d \in Conns : Configured(d)) =>
              /\ History(files', "keyring") = History(files, "keyring")
              /\ ~(pc'[c] = "write" /\ response'[c].status = "OK")]_vars

\* C35: a CONFIGURE that is not answered OK leaves the keyring as it was: no
\* admin key is stored and the server stays unconfigured where it was.
C35_FailedConfigureChangesNothing ==
    [][\A c \in Conns :
          (DispatchingConfigure(c) /\ ~(pc'[c] = "write" /\ response'[c].status = "OK")) =>
              /\ History(files', "keyring") = History(files, "keyring")
              /\ is_configured(files') = is_configured(files)
              /\ AcceptMethods(files') = AcceptMethods(files)]_vars


\* C36: in every reachable state the root node of the latest "fs" snapshot
\* is a live Dir, whatever inserts, deletes and rollbacks were called, and
\* no insert at a path below the root fails for the root not being a Dir.
C36_RootIsLiveDir ==
    /\ get_root(files, "fs", Latest).st = "ok" => is_dir(LatestRoot)
    /\ (last.op = "insert" /\ last.path # P_root /\ last.st = "err"
           /\ last.err = "NotADirectory") =>
          is_dir(get_root(last.before, "fs", Latest).node)


\* the last call is an insert at a path that was a tombstone (at = TRUE) or
\* whose parent was a tombstone, below a root that was a live Dir
InsertedOverTombstone(at) ==
    /\ last.op = "insert"
    /\ is_dir(get_root(last.before, "fs", Latest).node)
    /\ Tombstone(LatestNode(last.before,
                            IF at THEN last.path ELSE ParentChild(last.path).parent))
    /\ at \/ ParentChild(last.path).parent # P_root

\* C37: after delete(p) has made p a tombstone, an insert at p succeeds and
\* makes p a live File with the new Object, and an insert at a path below p
\* succeeds too, p being a live Dir again afterwards.
C37_InsertAfterDelete ==
    /\ InsertedOverTombstone(TRUE) =>
          /\ last.st = "ok"
          /\ LatestNode(files, last.path) = Some(new_file(Sha256(RawData(last.data)), last.t))
    /\ InsertedOverTombstone(FALSE) =>
          /\ last.st = "ok"
          /\ LiveFile(files, last.path)
          /\ is_dir(LatestNode(files, ParentChild(last.path).parent)[1])


\* the last call is an insert that returned an error
InsertFailed == last.op = "insert" /\ last.st = "err"

\* why an insert fails: the path is the root, a node on the way to the path
\* is a File or a tombstone, or the path is a live Dir
InsertRefused(F, path) ==
    \/ path = P_root
    \/ ThroughNonDir(F, path)
    \/ (LatestNode(F, path) # None /\ is_dir(LatestNode(F, path)[1]))

\* C38: an insert that fails appends nothing to the "fs" history and leaves
\* the latest snapshot as it was; it fails for one of the reasons above, and
\* an insert at the root path fails always.
C38_FailedInsertAppendsNothing ==
    /\ InsertFailed =>
          /\ History(files, "fs") = History(last.before, "fs")
          /\ get_root(files, "fs", Latest) = get_root(last.before, "fs", Latest)
          /\ files.roots = last.before.roots
          /\ InsertRefused(last.before, last.path)
    /\ (last.op = "insert" /\ last.path = P_root) => InsertFailed

\* an insert at the root has failed on a store whose history had grown, and
\* the history is as long as it was
C38_Witness ==
    /\ InsertFailed /\ last.path = P_root /\ last.err = "IsADirectory"
    /\ Len(History(last.before, "fs")) > 1
    /\ History(files, "fs") = History(last.before, "fs")


\* a resync pass has returned Ok, it began after another resync pass had
\* returned Ok, and nobody but the client has acted since that one began
SecondResyncDone == ResyncDone /\ srun.over /\ srun.calm

\* C39: when a periodic resync has completed without error and neither the
\* folder nor the server is changed by anyone else, the next periodic resync
\* sends no INSERT, fetches nothing and deletes nothing locally.
C39_ResyncIdempotent ==
    SecondResyncDone =>
        /\ \A i \in 1..Len(srun.reqs) : srun.reqs[i].method \notin {"INSERT", "GET"}
        /\ local = srun.L
        /\ files = srun.F

\* the second of two resync passes over a listing with a live /d/a has ended:
\* the folder holds /s/d/a with the server's content and the pass sent no
\* request for a file
C39_Witness ==
    /\ SecondResyncDone
    /\ ListedNode(P_d_a) # None /\ is_file(ListedNode(P_d_a)[1])
    /\ local_is_file(local, local_path(P_d_a))
    /\ Some(local[local_path(P_d_a)].data) = files_get(files, P_d_a, Latest).val
    /\ srun.reqs = <<>>

====
